---- MODULE Spec2Model ----
(***************************************************************************)
(* Model of the tc-prospects enrichment scripts (src/scripts/*.py).        *)
(*                                                                         *)
(* A Python str is modelled as the sequence of its characters (one-char    *)
(* TLA+ strings), so that lower(), re.sub(), `in` and SequenceMatcher are  *)
(* computed character by character, as the code computes them.  Strings    *)
(* held in the JSON snapshot are TLA+ strings; StrChars spells them.       *)
(***************************************************************************)
EXTENDS Integers, Sequences, FiniteSets, TLC

VARIABLES
    nIn,        \* normalize_name run: the argument(s) it is applied to
    nOut,       \* normalize_name run: the values returned so far
    subdomain,  \* match_subdomain_to_district: argument `subdomain`
    cands,      \* match_subdomain_to_district: argument `districts`
    mcall,      \* match_subdomain_to_district: its locals while it runs
    districts,  \* data/districts.json: the list under "districts"
    docs,       \* docs/data.json: the list under "districts"
    last,       \* the script whose run ended last ("" before the first run)
    outcome,    \* how that run ended: "completed", or "raised" when an
                \* exception ended it ("" before the first run)
    fetched,    \* what the award source returned to the last award run;
                \* in the step-by-step Ballotpedia run, the pages of the site
    edclub_subdomains,  \* data/edclub_subdomains.txt: its non-blank lines
    enriched,   \* data/edclub_enriched.json (<<>> while it does not exist)
    run,        \* enrich_contacts.main taken step by step: its position and
                \* locals ([pc |-> "idle"] while it is not running)
    form        \* data/districts.json: "object" when the document is an
                \* object with the list under "districts", "list" when it
                \* is a bare list

vars == <<nIn, nOut, subdomain, cands, mcall, districts, docs, last, outcome,
          fetched, edclub_subdomains, enriched, run, form>>

\* Python's None.
None == "<None>"

-----------------------------------------------------------------------------
(* Characters and the str methods the scripts use.                         *)

UpperLetters == <<"A","B","C","D","E","F","G","H","I","J","K","L","M",
                  "N","O","P","Q","R","S","T","U","V","W","X","Y","Z">>
LowerLetters == <<"a","b","c","d","e","f","g","h","i","j","k","l","m",
                  "n","o","p","q","r","s","t","u","v","w","x","y","z">>
Digits == {"0","1","2","3","4","5","6","7","8","9"}

Range(s) == {s[i] : i \in DOMAIN s}

LowerSet == Range(LowerLetters)
UpperSet == Range(UpperLetters)

\* the lower-case letter of each upper-case letter, and the reverse
ToLower ==
    [c \in UpperSet |->
        LowerLetters[CHOOSE i \in DOMAIN UpperLetters : UpperLetters[i] = c]]
ToUpper ==
    [c \in LowerSet |->
        UpperLetters[CHOOSE i \in DOMAIN LowerLetters : LowerLetters[i] = c]]

IsLower(c) == c \in LowerSet
IsUpper(c) == c \in UpperSet
IsSpace(c) == c \in {" ", "\t", "\n"}
\* regex \w
IsWordChar(c) == IsLower(c) \/ IsUpper(c) \/ c \in Digits \/ c = "_"

LowerChar(c) ==
    IF IsUpper(c)
    THEN ToLower[c]
    ELSE c

UpperChar(c) ==
    IF IsLower(c)
    THEN ToUpper[c]
    ELSE c

\* str.upper()
Upper(s) == [i \in DOMAIN s |-> UpperChar(s[i])]

\* str.lower()
Lower(s) == [i \in DOMAIN s |-> LowerChar(s[i])]

\* s[i:j] of Python with 1-based inclusive bounds lo..hi
Slice(s, lo, hi) == IF lo > hi THEN <<>> ELSE SubSeq(s, lo, hi)

\* pat occurs in s starting at position i (1-based)
OccursAt(s, pat, i) ==
    /\ i >= 1
    /\ i + Len(pat) - 1 <= Len(s)
    /\ \A k \in 1..Len(pat) : s[i + k - 1] = pat[k]

\* Python's `pat in s`
Contains(s, pat) == \E i \in 1..(Len(s) + 1) : OccursAt(s, pat, i)

\* str.replace(old, new), old non-empty: leftmost non-overlapping occurrences
RECURSIVE ReplaceFrom(_, _, _, _)
ReplaceFrom(s, old, new, i) ==
    IF i > Len(s) THEN <<>>
    ELSE IF OccursAt(s, old, i)
         THEN new \o ReplaceFrom(s, old, new, i + Len(old))
         ELSE <<s[i]>> \o ReplaceFrom(s, old, new, i + 1)

Replace(s, old, new) == ReplaceFrom(s, old, new, 1)

\* str.strip()
RECURSIVE LStrip(_)
LStrip(s) == IF s # <<>> /\ IsSpace(Head(s)) THEN LStrip(Tail(s)) ELSE s
RECURSIVE RStrip(_)
RStrip(s) ==
    IF s # <<>> /\ IsSpace(s[Len(s)]) THEN RStrip(SubSeq(s, 1, Len(s) - 1)) ELSE s
Strip(s) == RStrip(LStrip(s))

-----------------------------------------------------------------------------
(* enrich_competitors.normalize_name                                       *)

\* regex \b at the gap before position i of s (i in 1..Len(s)+1)
WordBoundary(s, i) ==
    LET before == i > 1 /\ IsWordChar(s[i - 1])
        after  == i <= Len(s) /\ IsWordChar(s[i])
    IN  before # after

\* (mutant) the suffix matched as a plain substring, without the \b anchors
SuffixMatchAt_NoBoundary(s, suffix, i) == OccursAt(s, suffix, i)

\* rf'\b{suffix}\b' matches s at position i
SuffixMatchAt(s, suffix, i) ==
    /\ OccursAt(s, suffix, i)
    /\ WordBoundary(s, i)
    /\ WordBoundary(s, i + Len(suffix))

\* re.sub(rf'\b{suffix}\b', '', name): scan left to right, drop each match
RECURSIVE RemoveSuffixFrom(_, _, _)
RemoveSuffixFrom(s, suffix, i) ==
    IF i > Len(s) THEN <<>>
    ELSE IF SuffixMatchAt(s, suffix, i)
         THEN RemoveSuffixFrom(s, suffix, i + Len(suffix))
         ELSE <<s[i]>> \o RemoveSuffixFrom(s, suffix, i + 1)

RemoveSuffix(s, suffix) == RemoveSuffixFrom(s, suffix, 1)

\* re.sub(r'[^a-z0-9\s]', '', name)
RemovePunctuation(s) ==
    SelectSeq(s, LAMBDA c : IsLower(c) \/ c \in Digits \/ IsSpace(c))

\* re.sub(r'\s+', ' ', name)
RECURSIVE CollapseSpaces(_)
CollapseSpaces(s) ==
    IF s = <<>> THEN <<>>
    ELSE IF IsSpace(Head(s))
         THEN <<" ">> \o CollapseSpaces(LStrip(s))
         ELSE <<Head(s)>> \o CollapseSpaces(Tail(s))

\* --- string table ---
KnownStrings ==
    {"school district",
     "unified school district",
     "public schools",
     "city schools",
     "county schools",
     "independent school district",
     "isd",
     "usd",
     "sd",
     "ps",
     "unified",
     "schools",
     "school",
     "district",
     "elementary",
     "middle",
     "high",
     "academy",
     "k-12",
     "k12",
     " Public Schools",
     " school district",
     ".typingclub.com",
     "-",
     " ",
     "Kent",
     "Kent School District",
     "Kent City Schools",
     "Kens",
     "Kemp ISD",
     "Kemp Academy",
     "Zu",
     "kent.typingclub.com",
     "kent",
     "kent-wa.typingclub.com",
     "kens",
     "schools.typingclub.com",
     "zzz",
     "superintendent",
     "Superintendent",
     "Seattle Public Schools",
     "Tacoma Public Schools",
     "Miami-Dade County Public Schools",
     "https://www.seattleschools.org",
     "https://www.tacomaschools.org",
     "https://www.dadeschools.net",
     "http://",
     "https://",
     "www.",
     "/",
     ".",
     "@",
     "Jane Doe",
     "Brent Jones",
     "jane.doe@seattleschools.org",
     "jane.doe@tacomaschools.org",
     "jane.doe@dadeschools.net",
     "brent.jones@seattleschools.org",
     "brent.jones@tacomaschools.org",
     "brent.jones@dadeschools.net",
     "Ballotpedia",
     "Manual research",
     "District website",
     "Website scrape",
     "Florida DOE",
     "Ben Shuldiner",
     "Carlos Del Valle",
     "Fred Podesta",
     "Bev Redmond",
     "Dr. Kurt Buttleman",
     "Assistant Superintendent of Technology",
     "Chief Operations Officer",
     "Chief of Staff",
     "Assistant Superintendent of Finance",
     "bshuldiner@seattleschools.org",
     "cdelvalle@seattleschools.org",
     "fpodesta@seattleschools.org",
     "bredmond@seattleschools.org",
     "kbuttleman@seattleschools.org",
     "Joshua Garcia",
     "jgarcia@tacoma.k12.wa.us",
     "Krista Lundquist",
     "Chief Technology Officer",
     "klundquist@seattleschools.org",
     "Kathryn McCarthy",
     "kmccarthy@tacoma.k12.wa.us",
     "Jerry Mayer",
     "Chief Information Officer",
     "jmayer@dadeschools.net",
     "Caleb Perkins",
     "Chief Academic Officer",
     "cperkins@seattleschools.org",
     "technology",
     "tech",
     "cio",
     "cto",
     "curriculum",
     "academic",
     "Technology Director",
     "Carl Reed",
     "Dana Lee",
     "dlee@seattleschools.org",
     "Pat Kim",
     "pkim@seattleschools.org",
     "BShuldiner@seattleschools.org",
     "206-252-0000",
     "Miami-Dade",
     "Dade County",
     "Jose Dotres",
     "Ann Ray",
     "jdotres@dadeschools.net",
     "http",
     "acarvalho@dadeschools.net",
     "csantorno@tacoma.k12.wa.us",
     " School District",
     " County",
     "WA",
     "FL",
     "MIAMI-DADE COUNTY PUBLIC SCHOOLS",
     "SCHOOL BOARD OF ORANGE COUNTY",
     "FLORIDA DEPARTMENT OF EDUCATION",
     "84.010",
     "84.027",
     "2024-07-01",
     "2025-07-01",
     "TITLE I GRANTS - FL",
     "IDEA PART B",
     "SCHOOL",
     "DISTRICT",
     "UNIFIED",
     "ISD",
     "USD",
     "EDUCATION",
     "LEARNING",
     "UNIVERSITY",
     "COLLEGE",
     "SUPERINTENDENT OF PUBLIC",
     "84.01",
     "TAMPA PREPARATORY SCHOOL",
     "seattle.typingclub.com",
     "miami-dade.typingclub.com",
     "zzz.typingclub.com",
     "Miami",
     "Seattle",
     "Urban",
     "Orange County Public Schools",
     "Orlando",
     "FL - ESSER",
     "Spokane Public Schools",
     "Federal Way Public Schools",
     "Lake Washington School District",
     "Northshore School District",
     "Bellevue School District",
     "Los Angeles Unified School District",
     "San Diego Unified School District",
     "Houston Independent School District",
     "Dallas Independent School District",
     "Austin Independent School District",
     "Washington",
     "Oregon",
     "California",
     "Texas",
     "Florida",
     "New_York",
     "https://ballotpedia.org/",
     ",_",
     "_School_District",
     "_School_District,_",
     "OR",
     "CA",
     "TX",
     "NY",
     ""}

\* The spelling of every string literal the model handles.
Spelling(s) ==
    CASE s = "school district" -> <<"s","c","h","o","o","l"," ","d","i","s","t","r","i","c","t">>
      [] s = "unified school district" -> <<"u","n","i","f","i","e","d"," ","s","c","h","o","o","l"," ","d","i","s","t","r","i","c","t">>
      [] s = "public schools" -> <<"p","u","b","l","i","c"," ","s","c","h","o","o","l","s">>
      [] s = "city schools" -> <<"c","i","t","y"," ","s","c","h","o","o","l","s">>
      [] s = "county schools" -> <<"c","o","u","n","t","y"," ","s","c","h","o","o","l","s">>
      [] s = "independent school district" -> <<"i","n","d","e","p","e","n","d","e","n","t"," ","s","c","h","o","o","l"," ","d","i","s","t","r","i","c","t">>
      [] s = "isd" -> <<"i","s","d">>
      [] s = "usd" -> <<"u","s","d">>
      [] s = "sd" -> <<"s","d">>
      [] s = "ps" -> <<"p","s">>
      [] s = "unified" -> <<"u","n","i","f","i","e","d">>
      [] s = "schools" -> <<"s","c","h","o","o","l","s">>
      [] s = "school" -> <<"s","c","h","o","o","l">>
      [] s = "district" -> <<"d","i","s","t","r","i","c","t">>
      [] s = "elementary" -> <<"e","l","e","m","e","n","t","a","r","y">>
      [] s = "middle" -> <<"m","i","d","d","l","e">>
      [] s = "high" -> <<"h","i","g","h">>
      [] s = "academy" -> <<"a","c","a","d","e","m","y">>
      [] s = "k-12" -> <<"k","-","1","2">>
      [] s = "k12" -> <<"k","1","2">>
      [] s = " Public Schools" -> <<" ","P","u","b","l","i","c"," ","S","c","h","o","o","l","s">>
      [] s = " school district" -> <<" ","s","c","h","o","o","l"," ","d","i","s","t","r","i","c","t">>
      [] s = ".typingclub.com" -> <<".","t","y","p","i","n","g","c","l","u","b",".","c","o","m">>
      [] s = "-" -> <<"-">>
      [] s = " " -> <<" ">>
      [] s = "Kent" -> <<"K","e","n","t">>
      [] s = "Kent School District" -> <<"K","e","n","t"," ","S","c","h","o","o","l"," ","D","i","s","t","r","i","c","t">>
      [] s = "Kent City Schools" -> <<"K","e","n","t"," ","C","i","t","y"," ","S","c","h","o","o","l","s">>
      [] s = "Kens" -> <<"K","e","n","s">>
      [] s = "Kemp ISD" -> <<"K","e","m","p"," ","I","S","D">>
      [] s = "Kemp Academy" -> <<"K","e","m","p"," ","A","c","a","d","e","m","y">>
      [] s = "Zu" -> <<"Z","u">>
      [] s = "kent.typingclub.com" -> <<"k","e","n","t",".","t","y","p","i","n","g","c","l","u","b",".","c","o","m">>
      [] s = "kent" -> <<"k","e","n","t">>
      [] s = "kent-wa.typingclub.com" -> <<"k","e","n","t","-","w","a",".","t","y","p","i","n","g","c","l","u","b",".","c","o","m">>
      [] s = "kens" -> <<"k","e","n","s">>
      [] s = "schools.typingclub.com" -> <<"s","c","h","o","o","l","s",".","t","y","p","i","n","g","c","l","u","b",".","c","o","m">>
      [] s = "zzz" -> <<"z","z","z">>
      [] s = "superintendent" -> <<"s","u","p","e","r","i","n","t","e","n","d","e","n","t">>
      [] s = "Superintendent" -> <<"S","u","p","e","r","i","n","t","e","n","d","e","n","t">>
      [] s = "Seattle Public Schools" -> <<"S","e","a","t","t","l","e"," ","P","u","b","l","i","c"," ","S","c","h","o","o","l","s">>
      [] s = "Tacoma Public Schools" -> <<"T","a","c","o","m","a"," ","P","u","b","l","i","c"," ","S","c","h","o","o","l","s">>
      [] s = "Miami-Dade County Public Schools" -> <<"M","i","a","m","i","-","D","a","d","e"," ","C","o","u","n","t","y"," ","P","u","b","l","i","c"," ","S","c","h","o","o","l","s">>
      [] s = "https://www.seattleschools.org" -> <<"h","t","t","p","s",":","/","/","w","w","w",".","s","e","a","t","t","l","e","s","c","h","o","o","l","s",".","o","r","g">>
      [] s = "https://www.tacomaschools.org" -> <<"h","t","t","p","s",":","/","/","w","w","w",".","t","a","c","o","m","a","s","c","h","o","o","l","s",".","o","r","g">>
      [] s = "https://www.dadeschools.net" -> <<"h","t","t","p","s",":","/","/","w","w","w",".","d","a","d","e","s","c","h","o","o","l","s",".","n","e","t">>
      [] s = "http://" -> <<"h","t","t","p",":","/","/">>
      [] s = "https://" -> <<"h","t","t","p","s",":","/","/">>
      [] s = "www." -> <<"w","w","w",".">>
      [] s = "/" -> <<"/">>
      [] s = "." -> <<".">>
      [] s = "@" -> <<"@">>
      [] s = "Jane Doe" -> <<"J","a","n","e"," ","D","o","e">>
      [] s = "Brent Jones" -> <<"B","r","e","n","t"," ","J","o","n","e","s">>
      [] s = "jane.doe@seattleschools.org" -> <<"j","a","n","e",".","d","o","e","@","s","e","a","t","t","l","e","s","c","h","o","o","l","s",".","o","r","g">>
      [] s = "jane.doe@tacomaschools.org" -> <<"j","a","n","e",".","d","o","e","@","t","a","c","o","m","a","s","c","h","o","o","l","s",".","o","r","g">>
      [] s = "jane.doe@dadeschools.net" -> <<"j","a","n","e",".","d","o","e","@","d","a","d","e","s","c","h","o","o","l","s",".","n","e","t">>
      [] s = "brent.jones@seattleschools.org" -> <<"b","r","e","n","t",".","j","o","n","e","s","@","s","e","a","t","t","l","e","s","c","h","o","o","l","s",".","o","r","g">>
      [] s = "brent.jones@tacomaschools.org" -> <<"b","r","e","n","t",".","j","o","n","e","s","@","t","a","c","o","m","a","s","c","h","o","o","l","s",".","o","r","g">>
      [] s = "brent.jones@dadeschools.net" -> <<"b","r","e","n","t",".","j","o","n","e","s","@","d","a","d","e","s","c","h","o","o","l","s",".","n","e","t">>
      [] s = "Ballotpedia" -> <<"B","a","l","l","o","t","p","e","d","i","a">>
      [] s = "Manual research" -> <<"M","a","n","u","a","l"," ","r","e","s","e","a","r","c","h">>
      [] s = "District website" -> <<"D","i","s","t","r","i","c","t"," ","w","e","b","s","i","t","e">>
      [] s = "Website scrape" -> <<"W","e","b","s","i","t","e"," ","s","c","r","a","p","e">>
      [] s = "Florida DOE" -> <<"F","l","o","r","i","d","a"," ","D","O","E">>
      [] s = "Ben Shuldiner" -> <<"B","e","n"," ","S","h","u","l","d","i","n","e","r">>
      [] s = "Carlos Del Valle" -> <<"C","a","r","l","o","s"," ","D","e","l"," ","V","a","l","l","e">>
      [] s = "Fred Podesta" -> <<"F","r","e","d"," ","P","o","d","e","s","t","a">>
      [] s = "Bev Redmond" -> <<"B","e","v"," ","R","e","d","m","o","n","d">>
      [] s = "Dr. Kurt Buttleman" -> <<"D","r","."," ","K","u","r","t"," ","B","u","t","t","l","e","m","a","n">>
      [] s = "Assistant Superintendent of Technology" -> <<"A","s","s","i","s","t","a","n","t"," ","S","u","p","e","r","i","n","t","e","n","d","e","n","t"," ","o","f"," ","T","e","c","h","n","o","l","o","g","y">>
      [] s = "Chief Operations Officer" -> <<"C","h","i","e","f"," ","O","p","e","r","a","t","i","o","n","s"," ","O","f","f","i","c","e","r">>
      [] s = "Chief of Staff" -> <<"C","h","i","e","f"," ","o","f"," ","S","t","a","f","f">>
      [] s = "Assistant Superintendent of Finance" -> <<"A","s","s","i","s","t","a","n","t"," ","S","u","p","e","r","i","n","t","e","n","d","e","n","t"," ","o","f"," ","F","i","n","a","n","c","e">>
      [] s = "bshuldiner@seattleschools.org" -> <<"b","s","h","u","l","d","i","n","e","r","@","s","e","a","t","t","l","e","s","c","h","o","o","l","s",".","o","r","g">>
      [] s = "cdelvalle@seattleschools.org" -> <<"c","d","e","l","v","a","l","l","e","@","s","e","a","t","t","l","e","s","c","h","o","o","l","s",".","o","r","g">>
      [] s = "fpodesta@seattleschools.org" -> <<"f","p","o","d","e","s","t","a","@","s","e","a","t","t","l","e","s","c","h","o","o","l","s",".","o","r","g">>
      [] s = "bredmond@seattleschools.org" -> <<"b","r","e","d","m","o","n","d","@","s","e","a","t","t","l","e","s","c","h","o","o","l","s",".","o","r","g">>
      [] s = "kbuttleman@seattleschools.org" -> <<"k","b","u","t","t","l","e","m","a","n","@","s","e","a","t","t","l","e","s","c","h","o","o","l","s",".","o","r","g">>
      [] s = "Joshua Garcia" -> <<"J","o","s","h","u","a"," ","G","a","r","c","i","a">>
      [] s = "jgarcia@tacoma.k12.wa.us" -> <<"j","g","a","r","c","i","a","@","t","a","c","o","m","a",".","k","1","2",".","w","a",".","u","s">>
      [] s = "Krista Lundquist" -> <<"K","r","i","s","t","a"," ","L","u","n","d","q","u","i","s","t">>
      [] s = "Chief Technology Officer" -> <<"C","h","i","e","f"," ","T","e","c","h","n","o","l","o","g","y"," ","O","f","f","i","c","e","r">>
      [] s = "klundquist@seattleschools.org" -> <<"k","l","u","n","d","q","u","i","s","t","@","s","e","a","t","t","l","e","s","c","h","o","o","l","s",".","o","r","g">>
      [] s = "Kathryn McCarthy" -> <<"K","a","t","h","r","y","n"," ","M","c","C","a","r","t","h","y">>
      [] s = "kmccarthy@tacoma.k12.wa.us" -> <<"k","m","c","c","a","r","t","h","y","@","t","a","c","o","m","a",".","k","1","2",".","w","a",".","u","s">>
      [] s = "Jerry Mayer" -> <<"J","e","r","r","y"," ","M","a","y","e","r">>
      [] s = "Chief Information Officer" -> <<"C","h","i","e","f"," ","I","n","f","o","r","m","a","t","i","o","n"," ","O","f","f","i","c","e","r">>
      [] s = "jmayer@dadeschools.net" -> <<"j","m","a","y","e","r","@","d","a","d","e","s","c","h","o","o","l","s",".","n","e","t">>
      [] s = "Caleb Perkins" -> <<"C","a","l","e","b"," ","P","e","r","k","i","n","s">>
      [] s = "Chief Academic Officer" -> <<"C","h","i","e","f"," ","A","c","a","d","e","m","i","c"," ","O","f","f","i","c","e","r">>
      [] s = "cperkins@seattleschools.org" -> <<"c","p","e","r","k","i","n","s","@","s","e","a","t","t","l","e","s","c","h","o","o","l","s",".","o","r","g">>
      [] s = "technology" -> <<"t","e","c","h","n","o","l","o","g","y">>
      [] s = "tech" -> <<"t","e","c","h">>
      [] s = "cio" -> <<"c","i","o">>
      [] s = "cto" -> <<"c","t","o">>
      [] s = "curriculum" -> <<"c","u","r","r","i","c","u","l","u","m">>
      [] s = "academic" -> <<"a","c","a","d","e","m","i","c">>
      [] s = "Technology Director" -> <<"T","e","c","h","n","o","l","o","g","y"," ","D","i","r","e","c","t","o","r">>
      [] s = "Carl Reed" -> <<"C","a","r","l"," ","R","e","e","d">>
      [] s = "Dana Lee" -> <<"D","a","n","a"," ","L","e","e">>
      [] s = "dlee@seattleschools.org" -> <<"d","l","e","e","@","s","e","a","t","t","l","e","s","c","h","o","o","l","s",".","o","r","g">>
      [] s = "Pat Kim" -> <<"P","a","t"," ","K","i","m">>
      [] s = "pkim@seattleschools.org" -> <<"p","k","i","m","@","s","e","a","t","t","l","e","s","c","h","o","o","l","s",".","o","r","g">>
      [] s = "BShuldiner@seattleschools.org" -> <<"B","S","h","u","l","d","i","n","e","r","@","s","e","a","t","t","l","e","s","c","h","o","o","l","s",".","o","r","g">>
      [] s = "206-252-0000" -> <<"2","0","6","-","2","5","2","-","0","0","0","0">>
      [] s = "Miami-Dade" -> <<"M","i","a","m","i","-","D","a","d","e">>
      [] s = "Dade County" -> <<"D","a","d","e"," ","C","o","u","n","t","y">>
      [] s = "Jose Dotres" -> <<"J","o","s","e"," ","D","o","t","r","e","s">>
      [] s = "Ann Ray" -> <<"A","n","n"," ","R","a","y">>
      [] s = "jdotres@dadeschools.net" -> <<"j","d","o","t","r","e","s","@","d","a","d","e","s","c","h","o","o","l","s",".","n","e","t">>
      [] s = "http" -> <<"h","t","t","p">>
      [] s = "acarvalho@dadeschools.net" -> <<"a","c","a","r","v","a","l","h","o","@","d","a","d","e","s","c","h","o","o","l","s",".","n","e","t">>
      [] s = "csantorno@tacoma.k12.wa.us" -> <<"c","s","a","n","t","o","r","n","o","@","t","a","c","o","m","a",".","k","1","2",".","w","a",".","u","s">>
      [] s = " School District" -> <<" ","S","c","h","o","o","l"," ","D","i","s","t","r","i","c","t">>
      [] s = " County" -> <<" ","C","o","u","n","t","y">>
      [] s = "WA" -> <<"W","A">>
      [] s = "FL" -> <<"F","L">>
      [] s = "MIAMI-DADE COUNTY PUBLIC SCHOOLS" -> <<"M","I","A","M","I","-","D","A","D","E"," ","C","O","U","N","T","Y"," ","P","U","B","L","I","C"," ","S","C","H","O","O","L","S">>
      [] s = "SCHOOL BOARD OF ORANGE COUNTY" -> <<"S","C","H","O","O","L"," ","B","O","A","R","D"," ","O","F"," ","O","R","A","N","G","E"," ","C","O","U","N","T","Y">>
      [] s = "FLORIDA DEPARTMENT OF EDUCATION" -> <<"F","L","O","R","I","D","A"," ","D","E","P","A","R","T","M","E","N","T"," ","O","F"," ","E","D","U","C","A","T","I","O","N">>
      [] s = "84.010" -> <<"8","4",".","0","1","0">>
      [] s = "84.027" -> <<"8","4",".","0","2","7">>
      [] s = "2024-07-01" -> <<"2","0","2","4","-","0","7","-","0","1">>
      [] s = "2025-07-01" -> <<"2","0","2","5","-","0","7","-","0","1">>
      [] s = "TITLE I GRANTS - FL" -> <<"T","I","T","L","E"," ","I"," ","G","R","A","N","T","S"," ","-"," ","F","L">>
      [] s = "IDEA PART B" -> <<"I","D","E","A"," ","P","A","R","T"," ","B">>
      [] s = "SCHOOL" -> <<"S","C","H","O","O","L">>
      [] s = "DISTRICT" -> <<"D","I","S","T","R","I","C","T">>
      [] s = "UNIFIED" -> <<"U","N","I","F","I","E","D">>
      [] s = "ISD" -> <<"I","S","D">>
      [] s = "USD" -> <<"U","S","D">>
      [] s = "EDUCATION" -> <<"E","D","U","C","A","T","I","O","N">>
      [] s = "LEARNING" -> <<"L","E","A","R","N","I","N","G">>
      [] s = "UNIVERSITY" -> <<"U","N","I","V","E","R","S","I","T","Y">>
      [] s = "COLLEGE" -> <<"C","O","L","L","E","G","E">>
      [] s = "SUPERINTENDENT OF PUBLIC" -> <<"S","U","P","E","R","I","N","T","E","N","D","E","N","T"," ","O","F"," ","P","U","B","L","I","C">>
      [] s = "84.01" -> <<"8","4",".","0","1">>
      [] s = "TAMPA PREPARATORY SCHOOL" -> <<"T","A","M","P","A"," ","P","R","E","P","A","R","A","T","O","R","Y"," ","S","C","H","O","O","L">>
      [] s = "seattle.typingclub.com" -> <<"s","e","a","t","t","l","e",".","t","y","p","i","n","g","c","l","u","b",".","c","o","m">>
      [] s = "miami-dade.typingclub.com" -> <<"m","i","a","m","i","-","d","a","d","e",".","t","y","p","i","n","g","c","l","u","b",".","c","o","m">>
      [] s = "zzz.typingclub.com" -> <<"z","z","z",".","t","y","p","i","n","g","c","l","u","b",".","c","o","m">>
      [] s = "Miami" -> <<"M","i","a","m","i">>
      [] s = "Seattle" -> <<"S","e","a","t","t","l","e">>
      [] s = "Urban" -> <<"U","r","b","a","n">>
      [] s = "Orange County Public Schools" -> <<"O","r","a","n","g","e"," ","C","o","u","n","t","y"," ","P","u","b","l","i","c"," ","S","c","h","o","o","l","s">>
      [] s = "Orlando" -> <<"O","r","l","a","n","d","o">>
      [] s = "FL - ESSER" -> <<"F","L"," ","-"," ","E","S","S","E","R">>
      [] s = "Spokane Public Schools" -> <<"S","p","o","k","a","n","e"," ","P","u","b","l","i","c"," ","S","c","h","o","o","l","s">>
      [] s = "Federal Way Public Schools" -> <<"F","e","d","e","r","a","l"," ","W","a","y"," ","P","u","b","l","i","c"," ","S","c","h","o","o","l","s">>
      [] s = "Lake Washington School District" -> <<"L","a","k","e"," ","W","a","s","h","i","n","g","t","o","n"," ","S","c","h","o","o","l"," ","D","i","s","t","r","i","c","t">>
      [] s = "Northshore School District" -> <<"N","o","r","t","h","s","h","o","r","e"," ","S","c","h","o","o","l"," ","D","i","s","t","r","i","c","t">>
      [] s = "Bellevue School District" -> <<"B","e","l","l","e","v","u","e"," ","S","c","h","o","o","l"," ","D","i","s","t","r","i","c","t">>
      [] s = "Los Angeles Unified School District" -> <<"L","o","s"," ","A","n","g","e","l","e","s"," ","U","n","i","f","i","e","d"," ","S","c","h","o","o","l"," ","D","i","s","t","r","i","c","t">>
      [] s = "San Diego Unified School District" -> <<"S","a","n"," ","D","i","e","g","o"," ","U","n","i","f","i","e","d"," ","S","c","h","o","o","l"," ","D","i","s","t","r","i","c","t">>
      [] s = "Houston Independent School District" -> <<"H","o","u","s","t","o","n"," ","I","n","d","e","p","e","n","d","e","n","t"," ","S","c","h","o","o","l"," ","D","i","s","t","r","i","c","t">>
      [] s = "Dallas Independent School District" -> <<"D","a","l","l","a","s"," ","I","n","d","e","p","e","n","d","e","n","t"," ","S","c","h","o","o","l"," ","D","i","s","t","r","i","c","t">>
      [] s = "Austin Independent School District" -> <<"A","u","s","t","i","n"," ","I","n","d","e","p","e","n","d","e","n","t"," ","S","c","h","o","o","l"," ","D","i","s","t","r","i","c","t">>
      [] s = "Washington" -> <<"W","a","s","h","i","n","g","t","o","n">>
      [] s = "Oregon" -> <<"O","r","e","g","o","n">>
      [] s = "California" -> <<"C","a","l","i","f","o","r","n","i","a">>
      [] s = "Texas" -> <<"T","e","x","a","s">>
      [] s = "Florida" -> <<"F","l","o","r","i","d","a">>
      [] s = "New_York" -> <<"N","e","w","_","Y","o","r","k">>
      [] s = "https://ballotpedia.org/" -> <<"h","t","t","p","s",":","/","/","b","a","l","l","o","t","p","e","d","i","a",".","o","r","g","/">>
      [] s = ",_" -> <<",","_">>
      [] s = "_School_District" -> <<"_","S","c","h","o","o","l","_","D","i","s","t","r","i","c","t">>
      [] s = "_School_District,_" -> <<"_","S","c","h","o","o","l","_","D","i","s","t","r","i","c","t",",","_">>
      [] s = "OR" -> <<"O","R">>
      [] s = "CA" -> <<"C","A">>
      [] s = "TX" -> <<"T","X">>
      [] s = "NY" -> <<"N","Y">>
      [] s = "" -> <<>>

\* the table of the spellings, built once
StrTable == [s \in KnownStrings |-> Spelling(s)]

\* list(s) for a string s of the snapshot or of the code
StrChars(s) == StrTable[s]
\* --- end of string table ---

\* The suffix list of normalize_name, in the order the loop applies it.
Suffixes ==
    << StrChars("school district"), StrChars("unified school district"),
       StrChars("public schools"), StrChars("city schools"),
       StrChars("county schools"), StrChars("independent school district"),
       StrChars("isd"), StrChars("usd"), StrChars("sd"), StrChars("ps"),
       StrChars("unified"), StrChars("schools"), StrChars("school"),
       StrChars("district"), StrChars("elementary"), StrChars("middle"),
       StrChars("high"), StrChars("academy"), StrChars("k-12"), StrChars("k12") >>

\* the `for suffix in [...]` loop, from the k-th suffix on
RECURSIVE RemoveSuffixes(_, _)
RemoveSuffixes(s, k) ==
    IF k > Len(Suffixes) THEN s
    ELSE RemoveSuffixes(RemoveSuffix(s, Suffixes[k]), k + 1)

normalize_name(name) ==
    Strip(CollapseSpaces(RemovePunctuation(RemoveSuffixes(Lower(name), 1))))

-----------------------------------------------------------------------------
(* Inputs of the normalize_name runs.                                      *)

MaxNameLen == 4
MaxWordLen == 3

SeqsUpTo(A, n) == UNION {[1..k -> A] : k \in 0..n}

NameAlphabet == {"s", "d", "K", "1", ".", "-", " "}
WordAlphabet == {"s", "d", "K", "1", ".", "-"}

IsAlnum(c) == IsLower(c) \/ IsUpper(c) \/ c \in Digits

\* a whitespace-free word that starts and ends with a letter or a digit
Words ==
    {w \in SeqsUpTo(WordAlphabet, MaxWordLen) :
        w # <<>> /\ IsAlnum(w[1]) /\ IsAlnum(w[Len(w)])}

InitNormalize ==
    /\ nIn \in [kind : {"name"}, x : SeqsUpTo(NameAlphabet, MaxNameLen)]
               \cup [kind : {"word"}, x : Words]
    /\ nOut = <<>>
    \* the rest of the state is not used by these runs
    /\ subdomain = "" /\ cands = <<>> /\ mcall = [pc |-> "idle"]
    /\ districts = <<>> /\ docs = <<>> /\ last = "" /\ outcome = ""
    /\ fetched = <<>> /\ edclub_subdomains = <<>> /\ enriched = <<>>
    /\ run = [pc |-> "idle"]
    /\ form = "object"

\* normalize_name(x)
NormalizeOnce ==
    /\ nIn.kind = "name" /\ nOut = <<>>
    /\ nOut' = <<normalize_name(nIn.x)>>
    /\ UNCHANGED <<nIn, subdomain, cands, mcall, districts, docs, last,
                   outcome, fetched, edclub_subdomains, enriched, run,
                   form>>

\* normalize_name(normalize_name(x))
NormalizeAgain ==
    /\ nIn.kind = "name" /\ Len(nOut) = 1
    /\ nOut' = Append(nOut, normalize_name(nOut[1]))
    /\ UNCHANGED <<nIn, subdomain, cands, mcall, districts, docs, last,
                   outcome, fetched, edclub_subdomains, enriched, run,
                   form>>

\* normalize_name(w + ' Public Schools')
NormalizePublicSchools ==
    /\ nIn.kind = "word" /\ nOut = <<>>
    /\ nOut' = <<normalize_name(nIn.x \o StrChars(" Public Schools"))>>
    /\ UNCHANGED <<nIn, subdomain, cands, mcall, districts, docs, last,
                   outcome, fetched, edclub_subdomains, enriched, run,
                   form>>

\* normalize_name(w + ' school district')
NormalizeSchoolDistrict ==
    /\ nIn.kind = "word" /\ Len(nOut) = 1
    /\ nOut' = Append(nOut, normalize_name(nIn.x \o StrChars(" school district")))
    /\ UNCHANGED <<nIn, subdomain, cands, mcall, districts, docs, last,
                   outcome, fetched, edclub_subdomains, enriched, run,
                   form>>

NextNormalize ==
    \/ NormalizeOnce
    \/ NormalizeAgain
    \/ NormalizePublicSchools
    \/ NormalizeSchoolDistrict
SpecNormalize ==
    /\ InitNormalize
    /\ [][NextNormalize]_vars

-----------------------------------------------------------------------------
(* Claims about normalize_name, checked under SpecNormalize.               *)

\* C1: normalize_name is idempotent: normalize_name(normalize_name(x)) equals
\* normalize_name(x) for every input x, also when punctuation separates the
\* letters of a suffix ('s.d', 'k.1.2').
C1_Idempotent ==
    (nIn.kind = "name" /\ Len(nOut) = 2) => nOut[2] = nOut[1]

IsSuffixToken(w) == \E k \in DOMAIN Suffixes : Suffixes[k] = Lower(w)

\* C2 as stated: for any single word w that is not a suffix token, both
\* normalize_name(w + ' Public Schools') and normalize_name(w + ' school
\* district') equal the lower-cased w.
C2_AnyWord ==
    (nIn.kind = "word" /\ Len(nOut) = 2 /\ ~IsSuffixToken(nIn.x))
        => (nOut[1] = nOut[2] /\ nOut[1] = Lower(nIn.x))

\* C2 amended: the same for every word w made of letters and digits only.
C2_AlnumWord ==
    (/\ nIn.kind = "word" /\ Len(nOut) = 2
     /\ ~IsSuffixToken(nIn.x)
     /\ \A i \in DOMAIN nIn.x : IsAlnum(nIn.x[i]))
        => (nOut[1] = nOut[2] /\ nOut[1] = Lower(nIn.x))

\* C2 witness: both runs done on a mixed-case alphanumeric word that has a
\* suffix token inside it.
C2_Witness ==
    /\ nIn.kind = "word" /\ Len(nOut) = 2
    /\ nIn.x = <<"K", "s", "d">>
    /\ nOut = << <<"k", "s", "d">>, <<"k", "s", "d">> >>

-----------------------------------------------------------------------------
(* difflib.SequenceMatcher(None, a, b).ratio(), as enrich_competitors      *)
(* .similarity calls it.  The strings are far shorter than 200 characters, *)
(* so difflib's "autojunk" heuristic never applies.                        *)

\* every common block: a[i..i+k-1] = b[j..j+k-1], k >= 1
CommonBlocks(a, b) ==
    {t \in (1..Len(a)) \X (1..Len(b)) \X (1..Len(a)) :
        /\ t[1] + t[3] - 1 <= Len(a)
        /\ OccursAt(b, SubSeq(a, t[1], t[1] + t[3] - 1), t[2])}

\* find_longest_match: the longest block; of those the one starting earliest
\* in a; of those the one starting earliest in b
LongestMatch(a, b) ==
    CHOOSE t \in CommonBlocks(a, b) :
        \A u \in CommonBlocks(a, b) :
            \/ t[3] > u[3]
            \/ t[3] = u[3] /\ t[1] < u[1]
            \/ t[3] = u[3] /\ t[1] = u[1] /\ t[2] <= u[2]

\* get_matching_blocks: total size of the blocks found by matching the
\* longest block and recursing to its left and to its right
RECURSIVE MatchingSize(_, _)
MatchingSize(a, b) ==
    IF CommonBlocks(a, b) = {} THEN 0
    ELSE LET t == LongestMatch(a, b)
             i == t[1]
             j == t[2]
             k == t[3]
         IN  k + MatchingSize(Slice(a, 1, i - 1), Slice(b, 1, j - 1))
               + MatchingSize(Slice(a, i + k, Len(a)), Slice(b, j + k, Len(b)))

\* A score is the exact fraction num/den (Python holds a float).
Frac(n, d) == [num |-> n, den |-> d]
FracGreater(x, y) == x.num * y.den > y.num * x.den
FracEqual(x, y) == x.num * y.den = y.num * x.den
FracAdd(x, y) == Frac(x.num * y.den + y.num * x.den, x.den * y.den)

\* round(score, 2), in hundredths; a tie goes to the even hundredth
Round2(x) ==
    LET q == (x.num * 100) \div x.den
        r == (x.num * 100) % x.den
    IN  IF 2 * r > x.den THEN q + 1
        ELSE IF 2 * r < x.den THEN q
        ELSE IF q % 2 = 0 THEN q ELSE q + 1

\* similarity(a, b): 2.0 * matches / (len(a) + len(b)), 1.0 for two empty strings
similarity(a, b) ==
    IF Len(a) + Len(b) = 0 THEN Frac(1, 1)
    ELSE Frac(2 * MatchingSize(a, b), Len(a) + Len(b))

-----------------------------------------------------------------------------
(* enrich_competitors.match_subdomain_to_district                          *)

\* dict.get(key, default)
Get(d, key, default) == IF key \in DOMAIN d THEN d[key] ELSE default

\* name_normalized (lines 34-35)
SubdomainNormalized(sub) ==
    LET name == Replace(StrChars(sub), StrChars(".typingclub.com"), <<>>)
    IN  normalize_name(Replace(name, StrChars("-"), StrChars(" ")))

SubstringScore == Frac(9, 10)
CityBoost == Frac(2, 10)
Threshold == Frac(5, 10)

\* (mutant) the substring override only for a non-empty cleaned subdomain
BaseScore_NonEmptyName(name_normalized, district) ==
    LET district_normalized == normalize_name(StrChars(district.name))
    IN  IF /\ name_normalized # <<>>
           /\ \/ Contains(district_normalized, name_normalized)
              \/ Contains(name_normalized, district_normalized)
        THEN SubstringScore
        ELSE similarity(name_normalized, district_normalized)

\* (mutant) no substring override: always the similarity ratio
BaseScore_NoOverride(name_normalized, district) ==
    similarity(name_normalized, normalize_name(StrChars(district.name)))

\* lines 44-48: the score before the city boost
BaseScore(name_normalized, district) ==
    LET district_normalized == normalize_name(StrChars(district.name))
    IN  IF \/ Contains(district_normalized, name_normalized)
           \/ Contains(name_normalized, district_normalized)
        THEN SubstringScore
        ELSE similarity(name_normalized, district_normalized)

\* lines 50-53: (district.get('city') or '').lower() occurs in name_normalized
CityMatches(name_normalized, district) ==
    LET c == Get(district, "city", None)
        city == IF c = None THEN <<>> ELSE Lower(StrChars(c))
    IN  city # <<>> /\ Contains(name_normalized, city)

\* lines 41-53: the score of one candidate
Score(name_normalized, district) ==
    IF CityMatches(name_normalized, district)
    THEN FracAdd(BaseScore(name_normalized, district), CityBoost)
    ELSE BaseScore(name_normalized, district)

\* (mutant) the threshold test dropped
Accepts_NoThreshold(score, best_score) == FracGreater(score, best_score)

\* (mutant) >= instead of >: the last of the tied candidates wins
Accepts_LastWins(score, best_score) ==
    /\ FracGreater(score, best_score) \/ FracEqual(score, best_score)
    /\ FracGreater(score, Threshold)

\* line 55
Accepts(score, best_score) ==
    FracGreater(score, best_score) /\ FracGreater(score, Threshold)

\* lines 57-62
MatchRecord(district, score) ==
    [district   |-> district.name,
     state      |-> district.state,
     enrollment |-> Get(district, "enrollment", 0),
     confidence |-> Round2(score)]

\* lines 37-64: the loop over districts[k..], carrying best_match (<<>> is
\* None, <<m>> a match) and best_score
RECURSIVE MatchLoop(_, _, _, _, _)
MatchLoop(name_normalized, ds, k, best_match, best_score) ==
    IF k > Len(ds) THEN best_match
    ELSE LET score == Score(name_normalized, ds[k])
         IN  IF Accepts(score, best_score)
             THEN MatchLoop(name_normalized, ds, k + 1,
                            <<MatchRecord(ds[k], score)>>, score)
             ELSE MatchLoop(name_normalized, ds, k + 1, best_match, best_score)

match_subdomain_to_district(sub, ds) ==
    MatchLoop(SubdomainNormalized(sub), ds, 1, <<>>, Frac(0, 1))

-----------------------------------------------------------------------------
(* One call of match_subdomain_to_district, statement by statement.        *)

MaxCands == 2

\* candidate districts: dicts with and without the optional keys
DistrictPool ==
    { [name |-> "Kent School District", state |-> "WA", city |-> "Kent",
       enrollment |-> 25000],
      [name |-> "Kent City Schools", state |-> "OH", city |-> None],
      [name |-> "Kens", state |-> "WA", enrollment |-> 400],
      [name |-> "Kemp ISD", state |-> "TX"],
      [name |-> "Kemp Academy", state |-> "TX", city |-> "Kent"],
      [name |-> "Zu", state |-> "WA", city |-> None] }

\* lines of data/edclub_subdomains.txt
SubdomainPool ==
    { "kent.typingclub.com", "kent", "kent-wa.typingclub.com", "kens",
      "schools.typingclub.com", "zzz" }

InitMatch ==
    /\ subdomain \in SubdomainPool
    /\ cands \in SeqsUpTo(DistrictPool, MaxCands)
    /\ mcall = [pc |-> "call", name_normalized |-> <<>>, k |-> 1,
                scores |-> <<>>, base |-> Frac(0, 1),
                best_match |-> <<>>, best_score |-> Frac(0, 1)]
    \* the rest of the state is not used by this call
    /\ nIn = [kind |-> "idle"] /\ nOut = <<>>
    /\ districts = <<>> /\ docs = <<>> /\ last = "" /\ outcome = ""
    /\ fetched = <<>> /\ edclub_subdomains = <<>> /\ enriched = <<>>
    /\ run = [pc |-> "idle"]
    /\ form = "object"

\* lines 34-38: clean and normalize the subdomain, best_match = None,
\* best_score = 0.0
MatchBegin ==
    /\ mcall.pc = "call"
    /\ mcall' = [mcall EXCEPT !.pc = "loop",
                              !.name_normalized = SubdomainNormalized(subdomain),
                              !.k = 1,
                              !.best_match = <<>>,
                              !.best_score = Frac(0, 1)]
    /\ UNCHANGED <<nIn, nOut, subdomain, cands, districts, docs, last,
                   outcome, fetched, edclub_subdomains, enriched, run,
                   form>>

\* lines 40-62: the loop body for districts[k]; base is `score` as line 46 or
\* 48 sets it, scores collects `score` as line 55 reads it
MatchBody ==
    /\ mcall.pc = "loop" /\ mcall.k <= Len(cands)
    /\ LET district == cands[mcall.k]
           score == Score(mcall.name_normalized, district)
           take == Accepts(score, mcall.best_score)
       IN  mcall' = [mcall EXCEPT
                !.k = mcall.k + 1,
                !.base = BaseScore(mcall.name_normalized, district),
                !.scores = Append(mcall.scores, score),
                !.best_score = IF take THEN score ELSE mcall.best_score,
                !.best_match = IF take THEN <<MatchRecord(district, score)>>
                               ELSE mcall.best_match]
    /\ UNCHANGED <<nIn, nOut, subdomain, cands, districts, docs, last,
                   outcome, fetched, edclub_subdomains, enriched, run,
                   form>>

\* line 64: return best_match
MatchReturn ==
    /\ mcall.pc = "loop" /\ mcall.k > Len(cands)
    /\ mcall' = [mcall EXCEPT !.pc = "done"]
    /\ UNCHANGED <<nIn, nOut, subdomain, cands, districts, docs, last,
                   outcome, fetched, edclub_subdomains, enriched, run,
                   form>>

NextMatch ==
    \/ MatchBegin
    \/ MatchBody
    \/ MatchReturn

SpecMatch ==
    /\ InitMatch
    /\ [][NextMatch]_vars

-----------------------------------------------------------------------------
(* Claims about the matcher, checked under SpecMatch.                      *)

\* the candidate the loop body handled last, and its normalized name
LastCandidate == cands[mcall.k - 1]
LastNormalized == normalize_name(StrChars(LastCandidate.name))
BodyRan == mcall.pc \in {"loop", "done"} /\ mcall.k > 1
LastScore == mcall.scores[mcall.k - 1]

\* C3: the score of two identical non-empty normalized names, before any
\* city boost, is 1.0.
C3_IdenticalScoreIsOne ==
    (/\ BodyRan
     /\ mcall.name_normalized # <<>>
     /\ LastNormalized = mcall.name_normalized)
        => FracEqual(mcall.base, Frac(1, 1))

IsSubstringPair(a, b) == Contains(a, b) \/ Contains(b, a)

\* C4: whenever one normalized name is a substring of the other, the score
\* given to that candidate is at least 0.9.
C4_SubstringAtLeast09 ==
    (BodyRan /\ IsSubstringPair(LastNormalized, mcall.name_normalized))
        => ~FracGreater(Frac(9, 10), LastScore)

\* C4 witness: a proper substring ('kent' in 'kent wa') was scored, and
\* the plain similarity ratio of the two names is below 0.9.
C4_Witness ==
    /\ BodyRan
    /\ IsSubstringPair(LastNormalized, mcall.name_normalized)
    /\ LastNormalized # mcall.name_normalized
    /\ LastNormalized # <<>> /\ mcall.name_normalized # <<>>
    /\ FracGreater(Frac(9, 10),
                   similarity(mcall.name_normalized, LastNormalized))

SomeScoreAbove ==
    \E i \in DOMAIN mcall.scores : FracGreater(mcall.scores[i], Threshold)

\* C5: a match is returned only with a score strictly above 0.5; when no
\* candidate scores above 0.5 (exactly 0.5 and the empty list included) the
\* function returns None.
C5_ThresholdStrict ==
    mcall.pc = "done" =>
        /\ mcall.best_match # <<>> => FracGreater(mcall.best_score, Threshold)
        /\ ~SomeScoreAbove => mcall.best_match = <<>>

\* C5 witness: the call returned None although a candidate scored exactly 0.5.
C5_Witness ==
    /\ mcall.pc = "done"
    /\ mcall.best_match = <<>>
    /\ \E i \in DOMAIN mcall.scores : FracEqual(mcall.scores[i], Threshold)

\* the first index whose score no other score exceeds
FirstMaxIndex ==
    CHOOSE i \in DOMAIN mcall.scores :
        /\ \A j \in DOMAIN mcall.scores :
              ~FracGreater(mcall.scores[j], mcall.scores[i])
        /\ \A j \in 1..(i - 1) : FracGreater(mcall.scores[i], mcall.scores[j])

\* C6: when some candidate scores above 0.5, the returned match is the
\* candidate with the maximum score of the whole list, and of those tied at
\* the maximum the one that comes first.
C6_FirstMaximum ==
    (mcall.pc = "done" /\ SomeScoreAbove) =>
        mcall.best_match =
            <<MatchRecord(cands[FirstMaxIndex], mcall.scores[FirstMaxIndex])>>

\* C6 witness: two different candidates tied at the maximum, the maximum is
\* above 0.5, and the first of them was returned.
C6_Witness ==
    /\ mcall.pc = "done" /\ Len(cands) = 2
    /\ cands[1].name # cands[2].name
    /\ FracEqual(mcall.scores[1], mcall.scores[2])
    /\ mcall.best_match # <<>>
    /\ mcall.best_match[1].district = cands[1].name

\* C7: the confidence of a returned match lies in [0, 1] (0..100 hundredths),
\* also when the city boost comes on top of a substring score.
C7_ConfidenceInUnitRange ==
    (mcall.pc = "done" /\ mcall.best_match # <<>>) =>
        mcall.best_match[1].confidence \in 0..100

-----------------------------------------------------------------------------
(* The contact passes.  A district and a contact are Python dicts: records *)
(* whose DOMAIN is the set of keys present.  A district without the key    *)
(* 'contacts' reads as one with an empty list (district.get('contacts',    *)
(* [])); every pass that writes the list creates the key first.            *)

\* the spelling of a string built at run time
CharsStr(cs) == CHOOSE s \in KnownStrings : StrChars(s) = cs

\* (c.get(key) or '').lower()
LowerOf(c, key) ==
    LET v == Get(c, key, None)
    IN  IF v = None THEN <<>> ELSE Lower(StrChars(v))

\* district.get('contacts', [])
ContactsOf(d) == Get(d, "contacts", <<>>)

\* dict.update(other)
Update(c, other) ==
    [k \in DOMAIN c \cup DOMAIN other |->
        IF k \in DOMAIN other THEN other[k] ELSE c[k]]

\* district['contacts'] = cs
WithContacts(d, cs) == Update(d, [contacts |-> cs])

\* list.insert(0, x)
InsertFirst(s, x) == <<x>> \o s

\* str.split(): the whitespace-separated parts
RECURSIVE Split(_)
Split(s) ==
    LET t == LStrip(s)
    IN  IF t = <<>> THEN <<>>
        ELSE LET n == IF \E i \in DOMAIN t : IsSpace(t[i])
                      THEN (CHOOSE i \in DOMAIN t :
                                /\ IsSpace(t[i])
                                /\ \A j \in 1..(i - 1) : ~IsSpace(t[j])) - 1
                      ELSE Len(t)
             IN  <<SubSeq(t, 1, n)>> \o Split(Slice(t, n + 1, Len(t)))

-----------------------------------------------------------------------------
(* enrich_contacts.py: the Ballotpedia pass                                *)

\* [^/]+ at position i: the longest run of characters other than '/'
RunNoSlash(w, i) ==
    LET stop == IF \E j \in i..Len(w) : w[j] = "/"
                THEN (CHOOSE j \in i..Len(w) :
                          w[j] = "/" /\ \A k \in i..(j - 1) : w[k] # "/")
                ELSE Len(w) + 1
    IN  Slice(w, i, stop - 1)

\* r'https?://(?:www\.)?([^/]+)' matched at position i: <<>> or <<group 1>>
DomainAt(w, i) ==
    LET e == IF OccursAt(w, StrChars("https://"), i) THEN i + 8
             ELSE IF OccursAt(w, StrChars("http://"), i) THEN i + 7
             ELSE 0
    IN  IF e = 0 THEN <<>>
        ELSE IF OccursAt(w, StrChars("www."), e) /\ RunNoSlash(w, e + 4) # <<>>
             THEN <<RunNoSlash(w, e + 4)>>
        ELSE IF RunNoSlash(w, e) # <<>> THEN <<RunNoSlash(w, e)>>
        ELSE <<>>

\* extract_domain(website): <<>> is None, <<d>> the domain
extract_domain(website) ==
    IF website = None \/ StrChars(website) = <<>> THEN <<>>
    ELSE LET w == StrChars(website)
             hits == {i \in DOMAIN w : DomainAt(w, i) # <<>>}
         IN  IF hits = {} THEN <<>>
             ELSE DomainAt(w, CHOOSE i \in hits : \A j \in hits : i <= j)

\* guess_email(name, domain)[0], None when guess_email returns []
LikelyEmail(name, domain) ==
    LET parts == Split(Lower(StrChars(name)))
    IN  IF domain = <<>> \/ Len(parts) < 2 THEN None
        ELSE LET first == Replace(parts[1], StrChars("."), <<>>)
                 lastp == parts[Len(parts)]
             IN  CharsStr(first \o StrChars(".") \o lastp \o StrChars("@")
                          \o domain[1])

\* (mutant) only a superintendent that an earlier Ballotpedia run inserted
\* counts as an existing one
HasSuperintendent_BallotpediaOnly(d) ==
    \E i \in DOMAIN ContactsOf(d) :
        /\ Get(ContactsOf(d)[i], "source", None) = "Ballotpedia"
        /\ Contains(LowerOf(ContactsOf(d)[i], "title"),
                    StrChars("superintendent"))

\* line 184
HasSuperintendent(d) ==
    \E i \in DOMAIN ContactsOf(d) :
        Contains(LowerOf(ContactsOf(d)[i], "title"), StrChars("superintendent"))

\* lines 210-217
BallotpediaContact(d, supt_name) ==
    [name          |-> supt_name,
     title         |-> "Superintendent",
     email         |-> LikelyEmail(supt_name,
                                   extract_domain(Get(d, "website", None))),
     email_guessed |-> TRUE,
     phone         |-> None,
     source        |-> "Ballotpedia"]

\* lines 179-223, one district; found is what get_ballotpedia_superintendent
\* returns for it (None or a name)
BallotpediaDistrict(d, found) ==
    IF HasSuperintendent(d) \/ found = None THEN d
    ELSE WithContacts(d, InsertFirst(ContactsOf(d), BallotpediaContact(d, found)))

-----------------------------------------------------------------------------
(* update_contacts_batch.py                                                *)

\* NEW_CONTACTS (lines 19-27)
NEW_CONTACTS ==
    [x \in {"Seattle Public Schools"} |->
        << [name |-> "Ben Shuldiner", title |-> "Superintendent",
            email |-> "bshuldiner@seattleschools.org",
            source |-> "District website"],
           [name |-> "Carlos Del Valle",
            title |-> "Assistant Superintendent of Technology",
            email |-> "cdelvalle@seattleschools.org",
            source |-> "District website"],
           [name |-> "Fred Podesta", title |-> "Chief Operations Officer",
            email |-> "fpodesta@seattleschools.org",
            source |-> "District website"],
           [name |-> "Bev Redmond", title |-> "Chief of Staff",
            email |-> "bredmond@seattleschools.org",
            source |-> "District website"],
           [name |-> "Dr. Kurt Buttleman",
            title |-> "Assistant Superintendent of Finance",
            email |-> "kbuttleman@seattleschools.org",
            source |-> "District website"] >>]

\* UPDATES (lines 30-35)
UPDATES ==
    [x \in {"Seattle Public Schools"} |->
        [old_superintendent |-> "Brent Jones",
         new_superintendent |-> "Ben Shuldiner"]]

\* the index of the first contact of cs named n, 0 when there is none
FirstNamed(cs, n) ==
    IF \E i \in DOMAIN cs : Get(cs[i], "name", None) = n
    THEN CHOOSE i \in DOMAIN cs :
            /\ Get(cs[i], "name", None) = n
            /\ \A j \in 1..(i - 1) : Get(cs[j], "name", None) # n
    ELSE 0

\* lines 58-83: one new_contact merged into the contacts cs of district name;
\* existing_names is the set line 55 took before the loop
BatchMerge(cs, existing_names, name, new_contact) ==
    IF new_contact.name \in existing_names
    THEN [i \in DOMAIN cs |->
            IF Get(cs[i], "name", None) = new_contact.name
            THEN Update(cs[i], new_contact) ELSE cs[i]]
    ELSE IF name \in DOMAIN UPDATES /\ new_contact.title = "Superintendent"
    THEN LET i == FirstNamed(cs, UPDATES[name].old_superintendent)
         IN  IF i # 0 THEN [cs EXCEPT ![i] = Update(cs[i], new_contact)]
             ELSE Append(cs, new_contact)
    ELSE Append(cs, new_contact)

\* the loop of line 57 from the k-th new contact on
RECURSIVE BatchLoop(_, _, _, _)
BatchLoop(cs, existing_names, name, k) ==
    IF k > Len(NEW_CONTACTS[name]) THEN cs
    ELSE BatchLoop(BatchMerge(cs, existing_names, name, NEW_CONTACTS[name][k]),
                   existing_names, name, k + 1)

\* lines 46-83, one district
BatchDistrict(d) ==
    IF d.name \notin DOMAIN NEW_CONTACTS THEN d
    ELSE LET cs == ContactsOf(d)
             existing_names == {Get(cs[i], "name", None) : i \in DOMAIN cs}
         IN  WithContacts(d, BatchLoop(cs, existing_names, d.name, 1))

-----------------------------------------------------------------------------
(* fix_and_enrich.py.  The three tables hold the entries of the districts  *)
(* the model's snapshots can contain.                                      *)

\* SUPERINTENDENT_FIXES (lines 15-41)
SUPERINTENDENT_FIXES ==
    [x \in {"Tacoma Public Schools"} |->
        [name |-> "Joshua Garcia", email |-> "jgarcia@tacoma.k12.wa.us",
         source |-> "District website"]]

\* TECH_DIRECTORS (lines 44-75)
TECH_DIRECTORS ==
    [x \in {"Seattle Public Schools", "Tacoma Public Schools",
            "Miami-Dade County Public Schools"} |->
        CASE x = "Seattle Public Schools" ->
                [name |-> "Krista Lundquist", title |-> "Chief Technology Officer",
                 email |-> "klundquist@seattleschools.org"]
          [] x = "Tacoma Public Schools" ->
                [name |-> "Kathryn McCarthy", title |-> "Chief Technology Officer",
                 email |-> "kmccarthy@tacoma.k12.wa.us"]
          [] x = "Miami-Dade County Public Schools" ->
                [name |-> "Jerry Mayer", title |-> "Chief Information Officer",
                 email |-> "jmayer@dadeschools.net"]]

\* CURRICULUM_DIRECTORS (lines 78-89)
CURRICULUM_DIRECTORS ==
    [x \in {"Seattle Public Schools"} |->
        [name |-> "Caleb Perkins", title |-> "Chief Academic Officer",
         email |-> "cperkins@seattleschools.org"]]

\* (mutant) the fix is added as a new contact at the end of the list instead
\* of overwriting the one found
FixSuperintendent_Append(d) ==
    LET cs == ContactsOf(d)
        hits == {i \in DOMAIN cs : Get(cs[i], "title", None) = "Superintendent"}
    IN  IF d.name \notin DOMAIN SUPERINTENDENT_FIXES \/ hits = {} THEN d
        ELSE LET fix == SUPERINTENDENT_FIXES[d.name]
             IN  WithContacts(d, Append(cs,
                    [name |-> fix.name, title |-> "Superintendent",
                     email |-> fix.email, email_guessed |-> FALSE,
                     source |-> fix.source]))

\* lines 145-157: the first contact titled exactly 'Superintendent' is
\* overwritten with the fix
FixSuperintendent(d) ==
    LET cs == ContactsOf(d)
        hits == {i \in DOMAIN cs : Get(cs[i], "title", None) = "Superintendent"}
    IN  IF d.name \notin DOMAIN SUPERINTENDENT_FIXES \/ hits = {} THEN d
        ELSE LET i == CHOOSE i \in hits : \A j \in hits : i <= j
                 fix == SUPERINTENDENT_FIXES[d.name]
             IN  WithContacts(d, [cs EXCEPT ![i] =
                    Update(cs[i], [name |-> fix.name, email |-> fix.email,
                                   email_guessed |-> FALSE,
                                   source |-> fix.source])])

\* line 166: the contacts the tech-director step counts as existing
TitleHasTechnology(c) ==
    \/ Contains(LowerOf(c, "title"), StrChars("technology"))
    \/ Contains(LowerOf(c, "title"), StrChars("cio"))
    \/ Contains(LowerOf(c, "title"), StrChars("cto"))

\* line 185
TitleHasCurriculum(c) ==
    \/ Contains(LowerOf(c, "title"), StrChars("curriculum"))
    \/ Contains(LowerOf(c, "title"), StrChars("academic"))

\* lines 170-176 and 189-195
ManualContact(e) ==
    [name |-> e.name, title |-> e.title, email |-> e.email,
     email_guessed |-> FALSE, source |-> "Manual research"]

\* lines 161-177
AddTechDirector(d) ==
    IF \/ d.name \notin DOMAIN TECH_DIRECTORS
       \/ \E i \in DOMAIN ContactsOf(d) : TitleHasTechnology(ContactsOf(d)[i])
    THEN d
    ELSE WithContacts(d, Append(ContactsOf(d),
                                ManualContact(TECH_DIRECTORS[d.name])))

\* lines 181-196
AddCurriculumDirector(d) ==
    IF \/ d.name \notin DOMAIN CURRICULUM_DIRECTORS
       \/ \E i \in DOMAIN ContactsOf(d) : TitleHasCurriculum(ContactsOf(d)[i])
    THEN d
    ELSE WithContacts(d, Append(ContactsOf(d),
                                ManualContact(CURRICULUM_DIRECTORS[d.name])))

\* the three loops of main (lines 145-196), as they act on one district
FixAndEnrichDistrict(d) ==
    AddCurriculumDirector(AddTechDirector(FixSuperintendent(d)))

-----------------------------------------------------------------------------
(* scrape_staff_browser.py                                                 *)

BrowserLimit == 20
MinEnrollment == 10000

\* lines 145-150
TitleHasTech(c) ==
    \/ Contains(LowerOf(c, "title"), StrChars("tech"))
    \/ Contains(LowerOf(c, "title"), StrChars("cio"))
    \/ Contains(LowerOf(c, "title"), StrChars("cto"))

\* lines 138-152: d goes into districts_to_scrape
BrowserEligible(d) ==
    /\ Get(d, "website", None) # None
    /\ Get(d, "enrollment", 0) >= MinEnrollment
    /\ ~\E i \in DOMAIN ContactsOf(d) : TitleHasTech(ContactsOf(d)[i])

\* line 158: districts[i] is among the first 20 of districts_to_scrape
BrowserScraped(ds, i) ==
    /\ BrowserEligible(ds[i])
    /\ Cardinality({j \in 1..i : BrowserEligible(ds[j])}) <= BrowserLimit

\* lines 173-177: the scraped contacts whose name is not yet in the list are
\* appended, in order
RECURSIVE AppendNew(_, _, _)
AppendNew(cs, existing_names, found) ==
    IF found = <<>> THEN cs
    ELSE AppendNew(IF Head(found).name \in existing_names THEN cs
                   ELSE Append(cs, Head(found)),
                   existing_names, Tail(found))

\* lines 159-177, one district; found is what scrape_district_with_browser
\* returns for it
BrowserDistrict(d, found) ==
    IF found = <<>> THEN d
    ELSE LET cs == ContactsOf(d)
             existing_names == {Get(cs[i], "name", None) : i \in DOMAIN cs}
         IN  WithContacts(d, AppendNew(cs, existing_names, found))

-----------------------------------------------------------------------------
(* scrape_contacts.py: the website scrape pass                             *)

\* known_websites (lines 268-287), the entries of the model's districts
known_websites ==
    [x \in {"Seattle Public Schools", "Tacoma Public Schools",
            "Miami-Dade County Public Schools"} |->
        CASE x = "Seattle Public Schools" -> "https://www.seattleschools.org"
          [] x = "Tacoma Public Schools" -> "https://www.tacomaschools.org"
          [] x = "Miami-Dade County Public Schools" ->
                "https://www.dadeschools.net"]

\* load_districts (lines 293-295), one district
WithKnownWebsite(d) ==
    IF d.name \in DOMAIN known_websites
    THEN Update(d, [website |-> known_websites[d.name]])
    ELSE d

\* main, lines 306 and 311-319, one district; found is result['contacts'] of
\* scrape_district (the empty list when nothing was found or a page failed)
ScrapeDistrict(d, found) ==
    LET e == WithKnownWebsite(d)
    IN  IF Get(e, "website", None) = None THEN e
        ELSE WithContacts(e, found)

-----------------------------------------------------------------------------
(* scrape_state_directories.py: the Florida directory pass                 *)

\* lines 172-177
FloridaNameMatches(d, row) ==
    LET district_name == Lower(StrChars(d.name))
        contact_district == Lower(StrChars(row.district))
    IN  \/ Contains(district_name, contact_district)
        \/ Contains(contact_district, district_name)
        \/ Contains(district_name, Split(contact_district)[1])

\* line 180
HasExactSuperintendent(d) ==
    \E i \in DOMAIN ContactsOf(d) :
        Get(ContactsOf(d)[i], "title", None) = "Superintendent"

\* lines 186-191
FloridaContact(row) ==
    [name |-> row.name, title |-> "Superintendent",
     email |-> Get(row, "email", None), source |-> "Florida DOE"]

\* lines 167-194: one directory row; the first Florida district whose name
\* matches takes it (if it has no superintendent) and ends the search
FloridaRow(ds, row) ==
    LET hits == {i \in DOMAIN ds :
                    ds[i].state = "FL" /\ FloridaNameMatches(ds[i], row)}
    IN  IF hits = {} THEN ds
        ELSE LET i == CHOOSE i \in hits : \A j \in hits : i <= j
             IN  IF ~HasExactSuperintendent(ds[i]) /\ row.name # ""
                 THEN [ds EXCEPT ![i] = WithContacts(ds[i],
                          InsertFirst(ContactsOf(ds[i]), FloridaContact(row)))]
                 ELSE ds

\* the loop of line 165 over the rows
RECURSIVE FloridaLoop(_, _)
FloridaLoop(ds, rows) ==
    IF rows = <<>> THEN ds
    ELSE FloridaLoop(FloridaRow(ds, Head(rows)), Tail(rows))

-----------------------------------------------------------------------------
(* The contact passes as runs over data/districts.json.  `districts` is the *)
(* 'districts' list of data/districts.json, `docs` the one of              *)
(* docs/data.json, `last` the script that ran last.  Each run loads the    *)
(* file, works through the list and saves; what the network returns is the *)
(* run's input.                                                            *)

MaxDistricts == 1
MaxFound == 1
MaxContacts == 6

\* the model follows a run only while no contacts list outgrows MaxContacts
\* (fix_and_enrich can lengthen a list on every run)
WithinBound(ds) ==
    \A i \in DOMAIN ds : Len(ContactsOf(ds[i])) <= MaxContacts

\* districts of the snapshot, in file order
SnapshotPool ==
    << [name |-> "Seattle Public Schools", state |-> "WA", enrollment |-> 49000],
       [name |-> "Tacoma Public Schools", state |-> "WA", enrollment |-> 27000],
       [name |-> "Miami-Dade County Public Schools", state |-> "FL",
        enrollment |-> 334000] >>

\* the superintendent a district was given by hand before the passes run
ResearchedSuperintendent(d) ==
    [title |-> "Superintendent", source |-> "Manual research",
     name |-> CASE d.name = "Seattle Public Schools" -> "Brent Jones"
                [] d.name = "Tacoma Public Schools" -> "Carla Santorno"
                [] OTHER -> "Alberto Carvalho",
     email |-> CASE d.name = "Seattle Public Schools" ->
                        "brent.jones@seattleschools.org"
                 [] d.name = "Tacoma Public Schools" ->
                        "csantorno@tacoma.k12.wa.us"
                 [] OTHER -> "acarvalho@dadeschools.net"]

\* the sub-lists of SnapshotPool (file order kept) of at most MaxDistricts
Snapshots ==
    LET picks == {S \in SUBSET DOMAIN SnapshotPool :
                      Cardinality(S) <= MaxDistricts}
        Nth(S, k) == CHOOSE i \in S : Cardinality({j \in S : j < i}) = k - 1
    IN  {[k \in 1..Cardinality(S) |-> SnapshotPool[Nth(S, k)]] : S \in picks}

\* what get_ballotpedia_superintendent can return
BallotpediaResults == {None, "Jane Doe", "Brent Jones"}

\* what scrape_district_with_browser can find (scrape_staff_browser.py lines
\* 106-121: one entry per name)
BrowserPool ==
    { [name |-> "Carl Reed", title |-> "Technology Director",
       email |-> None, source |-> "Website scrape"],
      [name |-> "Dana Lee", title |-> "Technology Director",
       email |-> "dlee@seattleschools.org", source |-> "Website scrape"] }

BrowserResults ==
    {f \in SeqsUpTo(BrowserPool, MaxFound) :
        \A i, j \in DOMAIN f : i # j => f[i].name # f[j].name}

\* what scrape_district can return as result['contacts'] (scrape_contacts.py
\* lines 246-257: one entry per lower-cased email)
ScrapePool ==
    { [name |-> "Benjamin Shuldiner",
       email |-> "BShuldiner@seattleschools.org",
       title |-> "Superintendent", phone |-> None],
      [name |-> "Pat Kim", email |-> "pkim@seattleschools.org",
       title |-> None, phone |-> "206-252-0000"] }

ScrapeResults ==
    {f \in SeqsUpTo(ScrapePool, MaxFound) :
        \A i, j \in DOMAIN f :
            i # j => Lower(StrChars(f[i].email)) # Lower(StrChars(f[j].email))}

\* the rows scrape_fl_fldoe can return
FloridaPool ==
    { [district |-> "Miami-Dade", name |-> "Jose Dotres",
       email |-> "jdotres@dadeschools.net"],
      [district |-> "Dade County", name |-> "Ann Ray", email |-> None] }

FloridaResults == SeqsUpTo(FloridaPool, MaxFound)

Init ==
    /\ \E s \in Snapshots : \E researched \in [DOMAIN s -> BOOLEAN] :
          districts = [i \in DOMAIN s |->
                          IF researched[i]
                          THEN WithContacts(s[i],
                                   <<ResearchedSuperintendent(s[i])>>)
                          ELSE s[i]]
    /\ docs = districts
    /\ last = "" /\ outcome = ""
    \* the rest of the state is not used by these runs
    /\ nIn = [kind |-> "idle"] /\ nOut = <<>>
    /\ subdomain = "" /\ cands = <<>> /\ mcall = [pc |-> "idle"]
    /\ fetched = <<>> /\ edclub_subdomains = <<>> /\ enriched = <<>>
    /\ run = [pc |-> "idle"]
    /\ form = "object"

\* enrich_contacts.main (lines 168-241)
EnrichContactsMain ==
    /\ \E found \in [DOMAIN districts -> BallotpediaResults] :
          districts' = [i \in DOMAIN districts |->
                           BallotpediaDistrict(districts[i], found[i])]
    /\ WithinBound(districts')
    /\ docs' = districts'
    /\ last' = "enrich_contacts"
    /\ outcome' = "completed"
    /\ UNCHANGED <<nIn, nOut, subdomain, cands, mcall,
                   fetched, edclub_subdomains, enriched, run,
                   form>>

\* scrape_state_directories.main (lines 151-205); nothing is loaded or saved
\* when the directory gave no rows
ScrapeStateDirectoriesMain ==
    /\ \E fl_contacts \in FloridaResults :
          IF fl_contacts = <<>>
          THEN UNCHANGED <<districts, docs>>
          ELSE /\ districts' = FloridaLoop(districts, fl_contacts)
               /\ WithinBound(districts')
    /\ docs' = districts'
    /\ last' = "scrape_state_directories"
    /\ outcome' = "completed"
    /\ UNCHANGED <<nIn, nOut, subdomain, cands, mcall,
                   fetched, edclub_subdomains, enriched, run,
                   form>>

\* fix_and_enrich.main (lines 136-198)
FixAndEnrichMain ==
    /\ districts' = [i \in DOMAIN districts |->
                        FixAndEnrichDistrict(districts[i])]
    /\ WithinBound(districts')
    /\ docs' = districts'
    /\ last' = "fix_and_enrich"
    /\ outcome' = "completed"
    /\ UNCHANGED <<nIn, nOut, subdomain, cands, mcall,
                   fetched, edclub_subdomains, enriched, run,
                   form>>

\* update_contacts_batch.main (lines 37-89)
UpdateContactsBatchMain ==
    /\ districts' = [i \in DOMAIN districts |-> BatchDistrict(districts[i])]
    /\ WithinBound(districts')
    /\ docs' = districts'
    /\ last' = "update_contacts_batch"
    /\ outcome' = "completed"
    /\ UNCHANGED <<nIn, nOut, subdomain, cands, mcall,
                   fetched, edclub_subdomains, enriched, run,
                   form>>

\* scrape_staff_browser.main (lines 125-185)
ScrapeStaffBrowserMain ==
    /\ \E found \in [DOMAIN districts -> BrowserResults] :
          districts' = [i \in DOMAIN districts |->
                           IF BrowserScraped(districts, i)
                           THEN BrowserDistrict(districts[i], found[i])
                           ELSE districts[i]]
    /\ WithinBound(districts')
    /\ docs' = districts'
    /\ last' = "scrape_staff_browser"
    /\ outcome' = "completed"
    /\ UNCHANGED <<nIn, nOut, subdomain, cands, mcall,
                   fetched, edclub_subdomains, enriched, run,
                   form>>

\* scrape_contacts.main (lines 300-340)
ScrapeContactsMain ==
    /\ \E found \in [DOMAIN districts -> ScrapeResults] :
          districts' = [i \in DOMAIN districts |->
                           ScrapeDistrict(districts[i], found[i])]
    /\ WithinBound(districts')
    /\ docs' = districts'
    /\ last' = "scrape_contacts"
    /\ outcome' = "completed"
    /\ UNCHANGED <<nIn, nOut, subdomain, cands, mcall,
                   fetched, edclub_subdomains, enriched, run,
                   form>>

Next ==
    \/ EnrichContactsMain
    \/ ScrapeStateDirectoriesMain
    \/ FixAndEnrichMain
    \/ UpdateContactsBatchMain
    \/ ScrapeStaffBrowserMain
    \/ ScrapeContactsMain

Spec ==
    /\ Init
    /\ [][Next]_vars

-----------------------------------------------------------------------------
(* Claims about the contact passes                                         *)

\* two contacts of one list that carry the very same title
SameTitlePair(cs) ==
    \E j, k \in DOMAIN cs :
        /\ j < k
        /\ Get(cs[j], "title", None) # None
        /\ Get(cs[j], "title", None) = Get(cs[k], "title", None)

\* C8: after any sequence of contact passes every district's contacts list
\* holds at most one contact per title category.  Two contacts with the very
\* same title are in the same category however titles are grouped, so the
\* claim implies that no list ever holds two contacts with equal titles.
C8_OneContactPerTitle ==
    \A i \in DOMAIN districts : ~SameTitlePair(ContactsOf(districts[i]))

\* a superintendent contact that came from manual research
HasManualSuperintendent(d) ==
    \E i \in DOMAIN ContactsOf(d) :
        /\ Get(ContactsOf(d)[i], "source", None) = "Manual research"
        /\ Contains(LowerOf(ContactsOf(d)[i], "title"),
                    StrChars("superintendent"))

\* C9: a run of the Ballotpedia pass leaves the contacts list of every
\* district that holds a 'Manual research' superintendent exactly as it was.
C9_ManualSuperintendentKept ==
    [][last' = "enrich_contacts" =>
         \A i \in DOMAIN districts :
            HasManualSuperintendent(districts[i]) =>
               /\ i \in DOMAIN districts'
               /\ "contacts" \in DOMAIN districts'[i]
               /\ districts'[i].contacts = districts[i].contacts]_vars

\* C9 witness: the Ballotpedia pass has just run over a snapshot with a
\* district whose superintendent came from manual research.
C9_Witness ==
    /\ last = "enrich_contacts"
    /\ \E i \in DOMAIN districts : HasManualSuperintendent(districts[i])

\* the contacts of cs whose source is 'Manual research' or 'District website'
HigherProvenance(cs) ==
    {i \in DOMAIN cs :
        Get(cs[i], "source", None) \in {"Manual research", "District website"}}

\* C10: a run of the website scrape pass over a district that has a website
\* keeps every contact whose source is 'Manual research' or 'District
\* website', with the same name and email.
C10_HigherProvenanceKept ==
    [][last' = "scrape_contacts" =>
         \A i \in DOMAIN districts :
            Get(districts[i], "website", None) # None =>
               \A j \in HigherProvenance(ContactsOf(districts[i])) :
                  \E k \in DOMAIN ContactsOf(districts'[i]) :
                     /\ Get(ContactsOf(districts'[i])[k], "name", None)
                          = Get(ContactsOf(districts[i])[j], "name", None)
                     /\ Get(ContactsOf(districts'[i])[k], "email", None)
                          = Get(ContactsOf(districts[i])[j], "email", None)]_vars

\* the superintendent contacts of cs whose email was guessed
GuessedSuperintendents(cs) ==
    {j \in DOMAIN cs :
        /\ Get(cs[j], "email_guessed", FALSE)
        /\ Contains(LowerOf(cs[j], "title"), StrChars("superintendent"))}

\* cs with the verified fix written over the contact at index j, nothing else
\* touched
FixedInPlace(cs, j, fix, out) ==
    /\ Len(out) = Len(cs)
    /\ out[j].name = fix.name
    /\ out[j].email = fix.email
    /\ out[j].source = fix.source
    /\ \A k \in DOMAIN cs : k # j => out[k] = cs[k]

\* C11: when fix_and_enrich runs over a district that has a verified
\* superintendent fix and holds a superintendent whose email was guessed, the
\* fix step (lines 145-157) rewrites name, email and source of that contact in
\* place: same length, same index, every other contact unchanged; and the
\* list the run saves starts with exactly that fixed list (the later steps of
\* the run only append).
C11_FixInPlace ==
    [][last' = "fix_and_enrich" =>
         \A i \in DOMAIN districts :
            districts[i].name \in DOMAIN SUPERINTENDENT_FIXES =>
               \A j \in GuessedSuperintendents(ContactsOf(districts[i])) :
                  LET cs == ContactsOf(districts[i])
                      fix == SUPERINTENDENT_FIXES[districts[i].name]
                      saved == ContactsOf(districts'[i])
                  IN  /\ FixedInPlace(cs, j, fix,
                             ContactsOf(FixSuperintendent(districts[i])))
                      /\ Len(saved) >= Len(cs)
                      /\ FixedInPlace(cs, j, fix, SubSeq(saved, 1, Len(cs)))]_vars

\* C11 witness: fix_and_enrich has just run and a district with a verified
\* fix holds the fixed superintendent with its guessed flag cleared, still in
\* front of the contacts the run appended.
C11_Witness ==
    /\ last = "fix_and_enrich"
    /\ \E i \in DOMAIN districts :
          /\ districts[i].name \in DOMAIN SUPERINTENDENT_FIXES
          /\ Len(ContactsOf(districts[i])) >= 2
          /\ ContactsOf(districts[i])[1].name
               = SUPERINTENDENT_FIXES[districts[i].name].name
          /\ "phone" \in DOMAIN ContactsOf(districts[i])[1]
          /\ ~Get(ContactsOf(districts[i])[1], "email_guessed", TRUE)

\* one run of each merging pass over a whole snapshot, as the actions apply
\* it (the directory pass only when it was given rows)
BatchRun(ds) == [i \in DOMAIN ds |-> BatchDistrict(ds[i])]
FixAndEnrichRun(ds) == [i \in DOMAIN ds |-> FixAndEnrichDistrict(ds[i])]
BallotpediaRun(ds, found) ==
    [i \in DOMAIN ds |-> BallotpediaDistrict(ds[i], found[i])]

\* C12: for every snapshot the passes can produce and the same source data,
\* a second run of update_contacts_batch, of fix_and_enrich, of the
\* Ballotpedia pass or of the Florida-directory pass leaves every contacts
\* list exactly as the first run left it.
C12_MergeIdempotent ==
    /\ BatchRun(BatchRun(districts)) = BatchRun(districts)
    /\ FixAndEnrichRun(FixAndEnrichRun(districts)) = FixAndEnrichRun(districts)
    /\ \A found \in [DOMAIN districts -> BallotpediaResults] :
          BallotpediaRun(BallotpediaRun(districts, found), found)
             = BallotpediaRun(districts, found)
    /\ \A rows \in FloridaResults :
          FloridaLoop(FloridaLoop(districts, rows), rows)
             = FloridaLoop(districts, rows)

\* two contacts of one list with different names whose emails are equal
\* ignoring case
SharedEmailPair(cs) ==
    \E j, k \in DOMAIN cs :
        /\ j < k
        /\ Get(cs[j], "name", None) # Get(cs[k], "name", None)
        /\ Get(cs[j], "email", None) # None
        /\ Get(cs[k], "email", None) # None
        /\ Lower(StrChars(cs[j].email)) = Lower(StrChars(cs[k].email))

\* C13: after any contact pass no contacts list holds two entries whose
\* non-null emails are equal ignoring case; in particular not two entries
\* with different names.
C13_OneContactPerEmail ==
    \A i \in DOMAIN districts : ~SharedEmailPair(ContactsOf(districts[i]))

-----------------------------------------------------------------------------
(* The award passes.  A raw award is one element of the 'results' list of  *)
(* the USASpending answer, with '_' for the blank of its keys.  A JSON     *)
(* number that can be null is <<>> (null) or <<n>>; an award description  *)
(* is kept as its character sequence, <<None>> when it is null.            *)

NoText == <<None>>

\* r.get(key) or '' for a description
TextOrEmpty(r, key) ==
    IF key \in DOMAIN r /\ r[key] # NoText THEN r[key] ELSE <<>>

\* r.get(key) or '' for a string
StringOrEmpty(r, key) ==
    IF key \in DOMAIN r /\ r[key] # None THEN r[key] ELSE ""

\* r.get('Award Amount') or 0
AmountOrZero(r) ==
    IF "Award_Amount" \in DOMAIN r /\ r.Award_Amount # <<>>
    THEN r.Award_Amount[1] ELSE 0

\* (r.get('Recipient Name') or '').lower()
RecipientLower(r) == Lower(StrChars(StringOrEmpty(r, "Recipient_Name")))

\* [x for x in s if keep(x)] with keep given as the set of kept positions
RECURSIVE Filter(_, _, _)
Filter(s, keep, i) ==
    IF i > Len(s) THEN <<>>
    ELSE (IF i \in keep THEN <<s[i]>> ELSE <<>>) \o Filter(s, keep, i + 1)

\* s[:n]
FirstN(s, n) == IF Len(s) <= n THEN s ELSE SubSeq(s, 1, n)

\* sum(f(x) for x in s) for the amounts of a list of raw awards
RECURSIVE SumAmounts(_)
SumAmounts(s) ==
    IF s = <<>> THEN 0 ELSE AmountOrZero(Head(s)) + SumAmounts(Tail(s))

-----------------------------------------------------------------------------
(* fetch_all_awards.py                                                     *)

LargeEnrollment == 50000
TopAwards == 10
DescriptionLimit == 200

\* line 63
SearchTerm(name) ==
    Replace(Replace(Replace(StrChars(name), StrChars(" School District"), <<>>),
                    StrChars(" Public Schools"), <<>>),
            StrChars(" County"), <<>>)

\* line 72
AllAwardsMatching(name, results) ==
    LET first == Split(Lower(SearchTerm(name)))[1]
    IN  Filter(results,
               {i \in DOMAIN results : Contains(RecipientLower(results[i]), first)},
               1)

\* lines 81-87
AllAwardsDetail(r) ==
    [amount      |-> AmountOrZero(r),
     description |-> FirstN(TextOrEmpty(r, "Description"), DescriptionLimit),
     program     |-> StringOrEmpty(r, "CFDA_Number"),
     start_date  |-> StringOrEmpty(r, "Start_Date"),
     year        |-> "2023-2026"]

\* lines 68-93, one large district; results is what search_awards returned
\* ([] when the call failed, lines 39-46)
\* a variant of lines 75-87 that adds the batch to what the district holds
AllAwardsDistrict_Merge(d, results) ==
    LET matching == AllAwardsMatching(d.name, results)
        top == FirstN(matching, TopAwards)
    IN  IF matching = <<>> THEN d
        ELSE Update(d, [federal_awards |-> d.federal_awards + SumAmounts(matching),
                        recent_awards  |-> d.recent_awards + Len(matching),
                        award_details  |->
                           d.award_details
                              \o [k \in DOMAIN top |-> AllAwardsDetail(top[k])]])

\* a variant of lines 68-93 that clears the award fields when the call
\* returned nothing
AllAwardsDistrict_ClearOnEmpty(d, results) ==
    LET matching == AllAwardsMatching(d.name, results)
        top == FirstN(matching, TopAwards)
    IN  IF results = <<>>
        THEN Update(d, [federal_awards |-> 0, recent_awards |-> 0,
                        award_details |-> <<>>])
        ELSE IF matching = <<>> THEN d
        ELSE Update(d, [federal_awards |-> SumAmounts(matching),
                        recent_awards  |-> Len(matching),
                        award_details  |->
                           [k \in DOMAIN top |-> AllAwardsDetail(top[k])]])

AllAwardsDistrict(d, results) ==
    IF results = <<>> THEN d
    ELSE LET matching == AllAwardsMatching(d.name, results)
             top == FirstN(matching, TopAwards)
         IN  IF matching = <<>> THEN d
             ELSE Update(d, [federal_awards |-> SumAmounts(matching),
                             recent_awards  |-> Len(matching),
                             award_details  |->
                                [k \in DOMAIN top |-> AllAwardsDetail(top[k])]])

\* line 56
IsLarge(d) == Get(d, "enrollment", 0) >= LargeEnrollment

-----------------------------------------------------------------------------
(* fetch_recent_awards.py                                                  *)

RecentTop == 5

\* lines 142-143
DistrictKeywords == <<"school", "district", "unified", "isd", "public schools">>

IsDistrictAward(r) ==
    LET recipient == RecipientLower(r)
    IN  \E k \in DOMAIN DistrictKeywords :
           Contains(recipient, StrChars(DistrictKeywords[k]))

\* line 142: the school-district awards among one state's results
DistrictAwards(results) ==
    Filter(results, {i \in DOMAIN results : IsDistrictAward(results[i])}, 1)

\* lines 148-149: the format spec ',.0f' applied to None and None[:60] raise
\* TypeError; dict.get returns None when the key is there with a null value
PrintRaises(award) ==
    \/ "Award_Amount" \in DOMAIN award /\ award.Award_Amount = <<>>
    \/ "Description" \in DOMAIN award /\ award.Description = NoText

\* lines 147-150 for one state's results
PreviewRaises(results) ==
    LET shown == FirstN(DistrictAwards(results), RecentTop)
    IN  \E i \in DOMAIN shown : PrintRaises(shown[i])

\* `d_state in str(a)`: the state code occurs in the printed dict.  The keys
\* and the punctuation of the printed dict hold no two adjacent capitals
\* that form a state code, and numbers and None hold none, so the code
\* occurs exactly when it occurs in one of the strings
StateInStr(a, d_state) ==
    LET code == StrChars(d_state)
    IN  \/ Contains(StrChars(StringOrEmpty(a, "Recipient_Name")), code)
        \/ Contains(TextOrEmpty(a, "Description"), code)
        \/ Contains(StrChars(StringOrEmpty(a, "CFDA_Number")), code)
        \/ Contains(StrChars(StringOrEmpty(a, "Start_Date")), code)

\* lines 166-172
RecentMatching(d, all_recent) ==
    LET words == FirstN(Split(Lower(StrChars(d.name))), 2)
    IN  Filter(all_recent,
               {i \in DOMAIN all_recent :
                   /\ StateInStr(all_recent[i], d.state)
                   /\ \E w \in DOMAIN words :
                         Contains(RecipientLower(all_recent[i]), words[w])},
               1)

\* award.get(key, '') for a string: the stored value, null included
StringOrDefault(r, key) == IF key \in DOMAIN r THEN r[key] ELSE ""

\* lines 181-189
RecentDetail(award) ==
    [amount      |-> AmountOrZero(award),
     description |-> IF "Description" \in DOMAIN award
                     THEN award.Description ELSE <<>>,
     program     |-> StringOrDefault(award, "CFDA_Number"),
     start_date  |-> StringOrDefault(award, "Start_Date"),
     year        |-> "2024-2025"]

\* lines 165-193, one district
RecentDistrict(d, all_recent) ==
    LET matching == RecentMatching(d, all_recent)
        top == FirstN(matching, RecentTop)
    IN  IF matching = <<>> THEN d
        ELSE Update(d, [award_details  |->
                           [k \in DOMAIN top |-> RecentDetail(top[k])],
                        recent_awards  |-> Len(matching),
                        federal_awards |-> SumAmounts(top)])

\* line 130: the states of the snapshot
StatesOf(ds) == {ds[i].state : i \in DOMAIN ds}

\* the orders in which line 136 can walk list(set(...))
StateOrders(ds) ==
    {o \in [1..Cardinality(StatesOf(ds)) -> StatesOf(ds)] :
        \A i, j \in DOMAIN o : i # j => o[i] # o[j]}

\* lines 134-152: all_recent for the results per state, walked in order o
RECURSIVE AllRecent(_, _, _)
AllRecent(results, o, k) ==
    IF k > Len(o) THEN <<>>
    ELSE DistrictAwards(results[o[k]]) \o AllRecent(results, o, k + 1)

-----------------------------------------------------------------------------
(* fetch_data.py.  STATES, CFDA_PROGRAMS and sample_districts hold the     *)
(* entries of the states, programs and districts the model handles.        *)

STATES == <<"WA", "FL">>

CFDA_PROGRAMS ==
    [x \in {"84.010", "84.027"} |->
        IF x = "84.010" THEN "Title I - Improving Basic Programs"
        ELSE "IDEA - Special Education Grants"]

ExtraDistrictMinimum == 1000000

\* JSON null in the enrollment slot (an enrollment is never negative)
NoEnrollment == 0 - 1

\* lines 96-106
is_school_district(name) ==
    IF name = None \/ name = "" THEN FALSE
    ELSE LET name_upper == Upper(StrChars(name))
             has(w) == Contains(name_upper, StrChars(w))
         IN  /\ ~(has("UNIVERSITY") \/ has("COLLEGE")
                    \/ has("SUPERINTENDENT OF PUBLIC"))
             /\ (has("SCHOOL") \/ has("DISTRICT") \/ has("UNIFIED")
                    \/ has("ISD") \/ has("USD") \/ has("EDUCATION")
                    \/ has("LEARNING"))

\* lines 84-93; the codes the model handles hold no blank, so split()[0] is
\* the string itself
parse_cfda(cfda_str) ==
    IF cfda_str = None \/ cfda_str = ""
    THEN [code |-> None, program |-> "Unknown"]
    ELSE [code |-> cfda_str,
          program |-> IF cfda_str \in DOMAIN CFDA_PROGRAMS
                      THEN CFDA_PROGRAMS[cfda_str] ELSE cfda_str]

\* lines 151-162
AwardRecord(award) ==
    LET cfda_info == parse_cfda(Get(award, "CFDA_Number", None))
    IN  [amount      |-> AmountOrZero(award),
         description |-> FirstN(TextOrEmpty(award, "Description"),
                                DescriptionLimit),
         cfda_code   |-> cfda_info.code,
         program     |-> cfda_info.program,
         start_date  |-> StringOrDefault(award, "Start_Date"),
         year        |-> award.fetch_year]

\* line 139
DistrictKey(award) == Strip(Upper(StrChars(award.Recipient_Name)))

IsTitleI(award) ==
    LET code == parse_cfda(Get(award, "CFDA_Number", None)).code
    IN  code # None /\ OccursAt(StrChars(code), StrChars("84.01"), 1)

\* lines 132-173: district_awards of one state as the list of its values in
\* insertion order, each with its key
RECURSIVE GroupAwards(_, _, _)
GroupAwards(awards, state, groups) ==
    IF awards = <<>> THEN groups
    ELSE LET award == Head(awards)
         IN  IF ~is_school_district(Get(award, "Recipient_Name", ""))
             THEN GroupAwards(Tail(awards), state, groups)
             ELSE LET key == DistrictKey(award)
                      at == {g \in DOMAIN groups : groups[g].key = key}
                      start == IF at = {}
                               THEN Append(groups,
                                      [key |-> key,
                                       name |-> award.Recipient_Name,
                                       state |-> state, awards |-> <<>>,
                                       total_amount |-> 0,
                                       title_i_amount |-> 0,
                                       recent_awards |-> 0])
                               ELSE groups
                      g == CHOOSE g \in DOMAIN start : start[g].key = key
                      old == start[g]
                  IN  GroupAwards(Tail(awards), state,
                        [start EXCEPT ![g] =
                           [old EXCEPT
                              !.awards = Append(old.awards, AwardRecord(award)),
                              !.total_amount = old.total_amount
                                                 + AmountOrZero(award),
                              !.title_i_amount =
                                 old.title_i_amount
                                   + (IF IsTitleI(award)
                                      THEN AmountOrZero(award) ELSE 0),
                              !.recent_awards =
                                 old.recent_awards
                                   + (IF award.fetch_year \in {"2025", "2026"}
                                      THEN 1 ELSE 0)]])

\* lines 214 and 234
KeyMatches(name, key) ==
    LET district_name_upper == Upper(StrChars(name))
    IN  Contains(key, district_name_upper) \/ Contains(district_name_upper, key)

\* lines 207-227, one sample district; groups is the district_awards of its
\* state
WithSampleAwards(district, groups) ==
    LET hits == {g \in DOMAIN groups : KeyMatches(district.name, groups[g].key)}
    IN  IF hits # {}
        THEN LET matched == groups[CHOOSE g \in hits : \A h \in hits : g <= h]
             IN  Update(district,
                    [federal_awards |-> matched.total_amount,
                     title_i        |-> matched.title_i_amount,
                     recent_awards  |-> matched.recent_awards,
                     award_details  |-> FirstN(matched.awards, TopAwards)])
        ELSE Update(district,
                    [federal_awards |-> 0, title_i |-> 0,
                     recent_awards |-> 0, award_details |-> <<>>])

\* lines 238-248
ExtraDistrict(award_data) ==
    [name |-> award_data.name, state |-> award_data.state,
     enrollment |-> NoEnrollment, city |-> None, type |-> None,
     federal_awards |-> award_data.total_amount,
     title_i |-> award_data.title_i_amount,
     recent_awards |-> award_data.recent_awards,
     award_details |-> FirstN(award_data.awards, TopAwards)]

\* lines 230-248: the groups of all states, in order, against the growing
\* list
RECURSIVE AddExtras(_, _)
AddExtras(ds, groups) ==
    IF groups = <<>> THEN ds
    ELSE LET award_data == Head(groups)
             exists == \E i \in DOMAIN ds : KeyMatches(ds[i].name, award_data.key)
         IN  AddExtras(IF ~exists /\ award_data.total_amount > ExtraDistrictMinimum
                       THEN Append(ds, ExtraDistrict(award_data))
                       ELSE ds,
                       Tail(groups))

\* sample_districts (lines 185-204)
sample_districts ==
    << [name |-> "Seattle Public Schools", state |-> "WA",
        enrollment |-> 49000, city |-> "Seattle", type |-> "Urban"],
       [name |-> "Miami-Dade County Public Schools", state |-> "FL",
        enrollment |-> 334000, city |-> "Miami", type |-> "Urban"],
       [name |-> "Orange County Public Schools", state |-> "FL",
        enrollment |-> 206000, city |-> "Orlando", type |-> "Urban"] >>

\* the groups of all states in the order of STATES
RECURSIVE AllGroups(_, _)
AllGroups(by_state, k) ==
    IF k > Len(STATES) THEN <<>>
    ELSE by_state[STATES[k]] \o AllGroups(by_state, k + 1)

\* build_district_database and add_sample_districts (lines 109-251): the
\* 'districts' list for the awards fetched per state
BuiltDistricts(awards) ==
    LET by_state == [s \in Range(STATES) |-> GroupAwards(awards[s], s, <<>>)]
        sampled == [i \in DOMAIN sample_districts |->
                       WithSampleAwards(sample_districts[i],
                                        by_state[sample_districts[i].state])]
    IN  AddExtras(sampled, AllGroups(by_state, 1))

-----------------------------------------------------------------------------
(* enrich_competitors.main                                                 *)

\* str.title(): a letter is upper-cased after a non-letter (or at the
\* start) and lower-cased after a letter
TitleCase(s) ==
    [i \in DOMAIN s |->
        IF i = 1 \/ ~(IsLower(s[i - 1]) \/ IsUpper(s[i - 1]))
        THEN UpperChar(s[i]) ELSE LowerChar(s[i])]

\* lines 84-89; 'name' is kept as its character sequence
CompetitorEntry(sub, ds) ==
    [subdomain |-> sub,
     name      |-> TitleCase(Replace(Replace(StrChars(sub),
                                             StrChars(".typingclub.com"), <<>>),
                                     StrChars("-"), StrChars(" "))),
     match     |-> match_subdomain_to_district(sub, ds)]

\* a variant of lines 83-92 that records matched subdomains only
Competitors_MatchedOnly(subdomains, ds) ==
    LET all == [k \in DOMAIN subdomains |-> CompetitorEntry(subdomains[k], ds)]
    IN  Filter(all, {k \in DOMAIN all : all[k].match # <<>>}, 1)

\* lines 80-90
Competitors(subdomains, ds) ==
    [k \in DOMAIN subdomains |-> CompetitorEntry(subdomains[k], ds)]

\* lines 81 and 91-92
MatchedDistricts(competitors) ==
    {competitors[k].match[1].district :
        k \in {j \in DOMAIN competitors : competitors[j].match # <<>>}}

\* a variant of lines 95-96 that keeps a flag that was set before
WithCompetitorFlags_Sticky(ds, competitors) ==
    [i \in DOMAIN ds |->
        Update(ds[i],
               [uses_edclub |->
                   \/ Get(ds[i], "uses_edclub", FALSE)
                   \/ ds[i].name \in MatchedDistricts(competitors)])]

\* lines 95-96
WithCompetitorFlags(ds, competitors) ==
    [i \in DOMAIN ds |->
        Update(ds[i],
               [uses_edclub |-> ds[i].name \in MatchedDistricts(competitors)])]

\* lines 101 and 110-118
EnrichedOutput(subdomains, competitors) ==
    LET unmatched == Cardinality({k \in DOMAIN competitors :
                                     competitors[k].match = <<>>})
    IN  [meta |-> [total_subdomains |-> Len(subdomains),
                   matched |-> Len(subdomains) - unmatched,
                   unmatched |-> unmatched,
                   districts_using_edclub |->
                       Cardinality(MatchedDistricts(competitors))],
         competitors |-> competitors]

-----------------------------------------------------------------------------
(* The award scripts as runs over data/districts.json.  `fetched` keeps    *)
(* what the award source answered to the run that ended last.              *)

MaxAwards == 2

\* raw awards the source can return
RawAwards ==
    { [Recipient_Name |-> "MIAMI-DADE COUNTY PUBLIC SCHOOLS",
       Award_Amount |-> <<500>>,
       Description |-> StrChars("TITLE I GRANTS - FL"),
       CFDA_Number |-> "84.010", Start_Date |-> "2024-07-01"],
      [Recipient_Name |-> "MIAMI-DADE COUNTY PUBLIC SCHOOLS",
       Award_Amount |-> <<>>, Description |-> NoText,
       CFDA_Number |-> "84.027", Start_Date |-> None],
      [Recipient_Name |-> "SCHOOL BOARD OF ORANGE COUNTY",
       Award_Amount |-> <<2000000>>,
       Description |-> StrChars("IDEA PART B"),
       CFDA_Number |-> "84.027", Start_Date |-> "2025-07-01"] }

\* a 'results' list
Batches == SeqsUpTo(RawAwards, MaxAwards)

\* the answers of one search_awards request (fetch_all_awards.py lines
\* 39-46): a success with its results, a non-success status, an exception
Answers ==
    [status : {"ok"}, results : Batches]
        \cup [status : {"error", "exception"}, results : {<<>>}]

\* search_awards (fetch_all_awards.py lines 22-46) for an answer
search_awards(answer) == IF answer.status = "ok" THEN answer.results ELSE <<>>

\* what is asked of a district that fetch_all_awards does not search
NotAsked == [status |-> "none", results |-> <<>>]

\* the answers to the requests of one run, at most MaxAwards awards in all;
\* only large districts are asked (lines 56-59)
AnswersByDistrict(ds) ==
    {f \in [DOMAIN ds -> Answers \cup {NotAsked}] :
        /\ \A i \in DOMAIN ds : f[i] = NotAsked <=> ~IsLarge(ds[i])
        /\ \A i, j \in DOMAIN ds :
              i # j => Len(f[i].results) + Len(f[j].results) <= MaxAwards}

\* results per state, at most MaxAwards awards in all
ResultsByState(S) ==
    {f \in [S -> Batches] :
        \A s, u \in S : s # u => Len(f[s]) + Len(f[u]) <= MaxAwards}

\* fetch_usaspending_detailed (fetch_data.py lines 37-81) per state: the
\* results of the yearly requests, each award with its fetch_year (lines
\* 75-76), the years in request order
YearBatches ==
    {b \in SeqsUpTo(RawAwards \X {"2024", "2025"}, MaxAwards) :
        \A i, j \in DOMAIN b : i < j => ~(b[i][2] = "2025" /\ b[j][2] = "2024")}

WithFetchYear(b) ==
    [k \in DOMAIN b |-> Update(b[k][1], [fetch_year |-> b[k][2]])]

YearResultsByState ==
    {f \in [Range(STATES) -> YearBatches] :
        \A s, u \in Range(STATES) :
            s # u => Len(f[s]) + Len(f[u]) <= MaxAwards}

\* contacts and flags stored by earlier enrichment runs
EarlierEnrichment(d) ==
    Update(d, [contacts |-> <<ResearchedSuperintendent(d)>>,
               uses_edclub |-> TRUE])

\* the snapshots of sample districts k and k + 1 as fetch_data stores them
\* when no award was found, without or with the contacts and flags of
\* earlier enrichment runs
AwardSnapshots(k) ==
    {[i \in 1..2 |->
         LET d == WithSampleAwards(sample_districts[k + i - 1], <<>>)
         IN  IF earlier THEN EarlierEnrichment(d) ELSE d] :
       earlier \in BOOLEAN}

InitAwards ==
    /\ districts \in AwardSnapshots(1)
    /\ docs = districts
    /\ last = "" /\ outcome = "" /\ fetched = <<>>
    \* the rest of the state is not used by these runs
    /\ nIn = [kind |-> "idle"] /\ nOut = <<>>
    /\ subdomain = "" /\ cands = <<>> /\ mcall = [pc |-> "idle"]
    /\ edclub_subdomains = <<>> /\ enriched = <<>>
    /\ run = [pc |-> "idle"]
    /\ form = "object"

\* fetch_data.main (lines 254-283): the snapshot is built anew and written
\* to both files
FetchDataMain ==
    /\ \E awards \in YearResultsByState :
          /\ districts' =
                BuiltDistricts([s \in Range(STATES) |-> WithFetchYear(awards[s])])
          /\ fetched' = awards
    /\ docs' = districts'
    /\ last' = "fetch_data" /\ outcome' = "completed"
    /\ UNCHANGED <<nIn, nOut, subdomain, cands, mcall,
                   edclub_subdomains, enriched, run,
                   form>>

\* fetch_all_awards.main (lines 48-99) for the answers the source can give
FetchAllAwardsRun(inputs) ==
    /\ \E answers \in inputs :
          /\ districts' =
                [i \in DOMAIN districts |->
                    IF IsLarge(districts[i])
                    THEN AllAwardsDistrict(districts[i],
                                           search_awards(answers[i]))
                    ELSE districts[i]]
          /\ fetched' = answers
    /\ docs' = districts'
    /\ last' = "fetch_all_awards" /\ outcome' = "completed"
    /\ UNCHANGED <<nIn, nOut, subdomain, cands, mcall,
                   edclub_subdomains, enriched, run,
                   form>>

FetchAllAwardsMain == FetchAllAwardsRun(AnswersByDistrict(districts))

\* fetch_recent_awards.main (lines 113-196) for the results the source can
\* give: the preview of lines 147-150 can raise, which ends the run before
\* anything is saved; nothing is saved either when no school-district award
\* was found (line 161)
FetchRecentAwardsRun(inputs) ==
    /\ \E results \in inputs :
       \E o \in StateOrders(districts) :
          /\ fetched' = results
          /\ IF \E s \in StatesOf(districts) : PreviewRaises(results[s])
             THEN outcome' = "raised" /\ UNCHANGED <<districts, docs>>
             ELSE LET all_recent == AllRecent(results, o, 1)
                  IN  /\ outcome' = "completed"
                      /\ IF all_recent = <<>>
                         THEN UNCHANGED <<districts, docs>>
                         ELSE /\ districts' =
                                   [i \in DOMAIN districts |->
                                       RecentDistrict(districts[i],
                                                      all_recent)]
                              /\ docs' = districts'
    /\ last' = "fetch_recent_awards"
    /\ UNCHANGED <<nIn, nOut, subdomain, cands, mcall,
                   edclub_subdomains, enriched, run,
                   form>>

FetchRecentAwardsMain ==
    FetchRecentAwardsRun(ResultsByState(StatesOf(districts)))

\* the award passes over a stored snapshot
NextAwards ==
    \/ FetchAllAwardsMain
    \/ FetchRecentAwardsMain

SpecAwards ==
    /\ InitAwards
    /\ [][NextAwards]_vars

\* fetch_all_awards over a snapshot of two large districts
InitAllAwards ==
    /\ districts \in AwardSnapshots(2)
    /\ docs = districts
    /\ last = "" /\ outcome = "" /\ fetched = <<>>
    \* the rest of the state is not used by these runs
    /\ nIn = [kind |-> "idle"] /\ nOut = <<>>
    /\ subdomain = "" /\ cands = <<>> /\ mcall = [pc |-> "idle"]
    /\ edclub_subdomains = <<>> /\ enriched = <<>>
    /\ run = [pc |-> "idle"]
    /\ form = "object"

NextAllAwards == FetchAllAwardsMain

SpecAllAwards ==
    /\ InitAllAwards
    /\ [][NextAllAwards]_vars

\* The award passes over batches of up to MaxBatch awards for one district.
\* The request asks for the awards sorted by amount, largest first
\* (fetch_all_awards.py lines 35-36, fetch_recent_awards.py lines 100-101).
MaxBatch == 6

\* a description of 201 characters
LongDescription == StrChars("FL - ESSER") \o [i \in 1..191 |-> "x"]

\* raw awards of one recipient: a grant, and a de-obligation with a long
\* description
BatchPool ==
    { [Recipient_Name |-> "MIAMI-DADE COUNTY PUBLIC SCHOOLS",
       Award_Amount |-> <<500>>,
       Description |-> StrChars("TITLE I GRANTS - FL"),
       CFDA_Number |-> "84.010", Start_Date |-> "2024-07-01"],
      [Recipient_Name |-> "MIAMI-DADE COUNTY PUBLIC SCHOOLS",
       Award_Amount |-> <<0 - 200>>,
       Description |-> LongDescription,
       CFDA_Number |-> "84.425", Start_Date |-> "2025-07-01"] }

SortedBatches ==
    {b \in SeqsUpTo(BatchPool, MaxBatch) :
        \A i, j \in DOMAIN b :
           i < j => AmountOrZero(b[i]) >= AmountOrZero(b[j])}

InitBatches ==
    /\ districts = <<WithSampleAwards(sample_districts[2], <<>>)>>
    /\ docs = districts
    /\ last = "" /\ outcome = "" /\ fetched = <<>>
    \* the rest of the state is not used by these runs
    /\ nIn = [kind |-> "idle"] /\ nOut = <<>>
    /\ subdomain = "" /\ cands = <<>> /\ mcall = [pc |-> "idle"]
    /\ edclub_subdomains = <<>> /\ enriched = <<>>
    /\ run = [pc |-> "idle"]
    /\ form = "object"

FetchAllAwardsBatch ==
    FetchAllAwardsRun({[i \in DOMAIN districts |->
                           [status |-> "ok", results |-> b]] :
                       b \in SortedBatches})

FetchRecentAwardsBatch ==
    FetchRecentAwardsRun({[s \in StatesOf(districts) |-> b] :
                          b \in SortedBatches})

NextBatches ==
    \/ FetchAllAwardsBatch
    \/ FetchRecentAwardsBatch

SpecBatches ==
    /\ InitBatches
    /\ [][NextBatches]_vars

\* the bootstrap script run over a stored snapshot
NextFetchData == FetchDataMain

SpecFetchData ==
    /\ InitAwards
    /\ [][NextFetchData]_vars

-----------------------------------------------------------------------------
(* The competitor pass as runs over data/districts.json.                   *)
(* `edclub_subdomains` keeps the lines of data/edclub_subdomains.txt the   *)
(* last run read, `enriched` the document it wrote to                      *)
(* data/edclub_enriched.json.                                              *)

MaxSubdomains == 2

\* the non-blank stripped lines of data/edclub_subdomains.txt (lines 68-69)
SubdomainFiles ==
    SeqsUpTo({"kent.typingclub.com", "kens", "zzz"}, MaxSubdomains)

\* the districts of data/districts.json (lines 72-74)
CompetitorSnapshots ==
    SeqsUpTo({d \in DistrictPool :
                 d.name \in {"Kent School District", "Kens", "Zu"}}, MaxCands)

\* a flag stored by an earlier run of the pass
EarlierFlag(d) == Update(d, [uses_edclub |-> TRUE])

InitCompetitors ==
    /\ \E ds \in CompetitorSnapshots :
       \E earlier \in BOOLEAN :
          districts = [i \in DOMAIN ds |->
                          IF earlier THEN EarlierFlag(ds[i]) ELSE ds[i]]
    /\ docs = districts
    /\ last = "" /\ outcome = ""
    /\ edclub_subdomains = <<>> /\ enriched = <<>>
    /\ run = [pc |-> "idle"]
    /\ form = "object"
    \* the rest of the state is not used by these runs
    /\ nIn = [kind |-> "idle"] /\ nOut = <<>>
    /\ subdomain = "" /\ cands = <<>> /\ mcall = [pc |-> "idle"]
    /\ fetched = <<>>

\* (mutant) the districts output built for a bare list as well
DistrictsOutput_AnyForm(f, ds, competitors) ==
    <<WithCompetitorFlags(ds, competitors)>>

\* lines 74 and 124-127: the list under 'districts' of districts_output;
\* <<>> when building it raises, which data.get('meta', {}) does when the
\* loaded document is a list
DistrictsOutput(f, ds, competitors) ==
    IF f = "object" THEN <<WithCompetitorFlags(ds, competitors)>> ELSE <<>>

\* enrich_competitors.main (lines 66-134): data/edclub_enriched.json is
\* written (lines 120-121), then data/districts.json (lines 124-131);
\* docs/data.json is not
EnrichCompetitorsMain ==
    /\ \E subdomains \in SubdomainFiles :
       \E competitors \in {Competitors(subdomains, districts)} :
       \E out \in {DistrictsOutput(form, districts, competitors)} :
          /\ edclub_subdomains' = subdomains
          /\ enriched' = <<EnrichedOutput(subdomains, competitors)>>
          /\ IF out = <<>>
             THEN outcome' = "raised" /\ UNCHANGED <<districts, form>>
             ELSE /\ outcome' = "completed"
                  /\ districts' = out[1]
                  /\ form' = "object"
    /\ last' = "enrich_competitors"
    /\ UNCHANGED <<nIn, nOut, subdomain, cands, mcall, docs, fetched, run>>

NextCompetitors == EnrichCompetitorsMain

\* the competitor pass over a data/districts.json that holds a bare list
InitBareList ==
    /\ \E ds \in CompetitorSnapshots :
       \E earlier \in BOOLEAN :
          districts = [i \in DOMAIN ds |->
                          IF earlier THEN EarlierFlag(ds[i]) ELSE ds[i]]
    /\ form = "list"
    /\ docs = districts
    /\ last = "" /\ outcome = ""
    /\ edclub_subdomains = <<>> /\ enriched = <<>>
    /\ run = [pc |-> "idle"]
    \* the rest of the state is not used by these runs
    /\ nIn = [kind |-> "idle"] /\ nOut = <<>>
    /\ subdomain = "" /\ cands = <<>> /\ mcall = [pc |-> "idle"]
    /\ fetched = <<>>

NextBareList == EnrichCompetitorsMain

SpecBareList ==
    /\ InitBareList
    /\ [][NextBareList]_vars

SpecCompetitors ==
    /\ InitCompetitors
    /\ [][NextCompetitors]_vars

-----------------------------------------------------------------------------
(* The competitor pass: claims                                             *)

\* the subdomain of line k of the file matched a district named `name`
LineMatches(lines, k, ds, name) ==
    \E m \in {match_subdomain_to_district(lines[k], ds)} :
        m # <<>> /\ m[1].district = name

\* C15: after enrich_competitors.main, uses_edclub of every district is true
\* exactly when some subdomain of the file this run read matched the
\* district's name; the flag stored before the run plays no part.
C15_FlagRecomputed ==
    [][last' = "enrich_competitors" =>
         /\ DOMAIN districts' = DOMAIN districts
         /\ \A i \in DOMAIN districts :
               districts'[i].uses_edclub
                  <=> \E k \in DOMAIN edclub_subdomains' :
                         LineMatches(edclub_subdomains', k, districts,
                                     districts[i].name)]_vars

\* C15 witness: the pass has run, no line of its file matched a district,
\* and the flag of the district, true before (docs/data.json still holds
\* the earlier value), is now false.
C15_Witness ==
    /\ last = "enrich_competitors"
    /\ edclub_subdomains # <<>>
    /\ \E i \in DOMAIN districts :
          /\ Get(docs[i], "uses_edclub", FALSE)
          /\ ~districts[i].uses_edclub

\* C16: after any completed run the documents of data/districts.json and
\* docs/data.json are equal.
C16_FilesInLockstep == outcome = "completed" => docs = districts

\* C17: the competitor pass records every line of its file exactly once in
\* 'competitors', in file order; a line without a match is recorded with
\* match = null; and meta.matched + meta.unmatched = meta.total_subdomains.
C17_EverySubdomainRecorded ==
    last = "enrich_competitors" =>
       \A out \in {enriched[1]} :
          /\ Len(out.competitors) = Len(edclub_subdomains)
          /\ \A k \in DOMAIN edclub_subdomains :
                /\ out.competitors[k].subdomain = edclub_subdomains[k]
                /\ out.competitors[k].match
                     = match_subdomain_to_district(edclub_subdomains[k],
                                                   districts)
          /\ out.meta.total_subdomains = Len(edclub_subdomains)
          /\ out.meta.unmatched
               = Cardinality({k \in DOMAIN out.competitors :
                                 out.competitors[k].match = <<>>})
          /\ out.meta.matched + out.meta.unmatched = out.meta.total_subdomains

\* C17 witness: the pass has run over a file of two lines, the first with a
\* match and the second without, and both are recorded.
C17_Witness ==
    /\ last = "enrich_competitors"
    /\ Len(edclub_subdomains) = 2
    /\ Len(enriched[1].competitors) = 2
    /\ enriched[1].competitors[1].match # <<>>
    /\ enriched[1].competitors[2].match = <<>>
    /\ enriched[1].meta.unmatched = 1

-----------------------------------------------------------------------------
(* The award passes: claims                                                *)

\* the details fetch_all_awards builds from a matching batch (lines 79-87)
AllAwardsBuilt(matching) ==
    [k \in DOMAIN FirstN(matching, TopAwards) |-> AllAwardsDetail(matching[k])]

\* the details fetch_recent_awards builds from a matching batch (lines 180-189)
RecentBuilt(matching) ==
    [k \in DOMAIN FirstN(matching, RecentTop) |-> RecentDetail(matching[k])]

\* C14: award enrichment is a full replace.  When fetch_all_awards or
\* fetch_recent_awards finds a non-empty matching batch for a district, the
\* award_details the run saves are exactly the records built from the first
\* awards of that batch, in batch order, with none of the records held
\* before; federal_awards and recent_awards are computed from the batch alone
\* and not added to the earlier values.
C14_AwardsFullReplace ==
    [][/\ last' = "fetch_all_awards" =>
            \A i \in DOMAIN districts :
               \A matching \in {AllAwardsMatching(districts[i].name,
                                                  search_awards(fetched'[i]))} :
                  IsLarge(districts[i]) /\ matching # <<>> =>
                     /\ districts'[i].award_details = AllAwardsBuilt(matching)
                     /\ districts'[i].federal_awards = SumAmounts(matching)
                     /\ districts'[i].recent_awards = Len(matching)
       /\ last' = "fetch_recent_awards" /\ outcome' = "completed" =>
            \E o \in StateOrders(districts) :
               \A all_recent \in {AllRecent(fetched', o, 1)} :
                  \A i \in DOMAIN districts :
                     \A matching \in {RecentMatching(districts[i], all_recent)} :
                        matching # <<>> =>
                           /\ districts'[i].award_details = RecentBuilt(matching)
                           /\ districts'[i].federal_awards
                                = SumAmounts(FirstN(matching, RecentTop))
                           /\ districts'[i].recent_awards = Len(matching)]_vars

\* C14 witness: fetch_all_awards has just run, the batch returned for a large
\* district holds two matching awards, and the district holds two records.
C14_Witness ==
    /\ last = "fetch_all_awards"
    /\ \E i \in DOMAIN districts :
          /\ IsLarge(districts[i])
          /\ Len(AllAwardsMatching(districts[i].name,
                                   search_awards(fetched[i]))) = 2
          /\ Len(districts[i].award_details) = 2
          /\ districts[i].award_details[1].year = "2023-2026"

\* the request for district i failed: an exception (a timeout is one) or a
\* non-success status (fetch_all_awards.py lines 41-46)
CallFailed(answers, i) == answers[i].status \in {"error", "exception"}

\* C18: in fetch_all_awards.main a failed source call for a district leaves
\* its federal_awards, recent_awards and award_details as they were; the
\* loop goes on, so a later district whose call succeeds with a matching
\* batch is updated from it; and the run ends with the save of both files.
C18_FailedCallSkipsDistrict ==
    [][last' = "fetch_all_awards" =>
         /\ outcome' = "completed"
         /\ docs' = districts'
         /\ \A i \in DOMAIN districts :
               IsLarge(districts[i]) /\ CallFailed(fetched', i) =>
                  /\ districts'[i].federal_awards = districts[i].federal_awards
                  /\ districts'[i].recent_awards = districts[i].recent_awards
                  /\ districts'[i].award_details = districts[i].award_details
                  /\ \A j \in DOMAIN districts :
                        \A matching \in
                              {AllAwardsMatching(districts[j].name,
                                                 search_awards(fetched'[j]))} :
                           j > i /\ IsLarge(districts[j]) /\ matching # <<>> =>
                              /\ districts'[j].award_details
                                   = AllAwardsBuilt(matching)
                              /\ districts'[j].recent_awards = Len(matching)]_vars

\* C18 witness: fetch_all_awards has just run; the call for the first
\* district failed and the district still holds the records of an earlier
\* run; the call for the second district succeeded and its records come
\* from this run's batch; both files hold the result.
C18_Witness ==
    /\ last = "fetch_all_awards" /\ outcome = "completed"
    /\ docs = districts
    /\ Len(districts) = 2
    /\ IsLarge(districts[1]) /\ CallFailed(fetched, 1)
    /\ districts[1].award_details # <<>>
    /\ IsLarge(districts[2]) /\ fetched[2].status = "ok"
    /\ AllAwardsMatching(districts[2].name, fetched[2].results) # <<>>
    /\ districts[2].award_details
         = AllAwardsBuilt(AllAwardsMatching(districts[2].name,
                                            fetched[2].results))

\* the award scripts
AwardPasses == {"fetch_recent_awards", "fetch_all_awards", "fetch_data"}

\* C19: no run of an award script raises on the awards the source returned,
\* a raw award with a null amount or a null description included: the run
\* goes on to its end.
C19_NullFieldsNeverRaise == last \in AwardPasses => outcome = "completed"

\* district `after` is district `before` with nothing of its earlier
\* enrichment dropped: no fewer contacts, and the competitor flag still stored
KeepsEnrichment(before, after) ==
    /\ after.name = before.name
    /\ Len(ContactsOf(after)) >= Len(ContactsOf(before))
    /\ "uses_edclub" \in DOMAIN before => "uses_edclub" \in DOMAIN after

\* C20: no script run deletes a district or discards earlier enrichment:
\* every district of the snapshot before a run is in the snapshot after it,
\* with its contacts and flags.
C20_NothingDiscarded ==
    [][\A i \in DOMAIN districts :
          \E j \in DOMAIN districts' :
             KeepsEnrichment(districts[i], districts'[j])]_vars

-----------------------------------------------------------------------------
(* The contact passes: placement of a new superintendent                   *)

\* the passes that add a superintendent to a district without one
SuperintendentAdders ==
    {"enrich_contacts", "scrape_state_directories", "update_contacts_batch"}

\* C21: when the Ballotpedia pass, the Florida-directory pass or
\* update_contacts_batch adds a superintendent to a district that held no
\* contact titled 'Superintendent', the new contact is at index 0 of the
\* contacts list.
C21_SuperintendentFirst ==
    [][last' \in SuperintendentAdders =>
         \A i \in DOMAIN districts :
            /\ ~HasExactSuperintendent(districts[i])
            /\ HasExactSuperintendent(districts'[i])
            => Get(ContactsOf(districts'[i])[1], "title", None)
                  = "Superintendent"]_vars

-----------------------------------------------------------------------------
(* The award passes over long batches                                       *)

\* C22: when fetch_all_awards or fetch_recent_awards updates a district from
\* a matching batch, federal_awards is the sum of the amounts of all awards
\* of the batch and recent_awards is the number of awards of the batch,
\* whatever the size of the batch.
C22_TotalsCoverWholeBatch ==
    [][/\ last' = "fetch_all_awards" =>
            \A i \in DOMAIN districts :
               \A matching \in {AllAwardsMatching(districts[i].name,
                                                  search_awards(fetched'[i]))} :
                  IsLarge(districts[i]) /\ matching # <<>> =>
                     /\ districts'[i].federal_awards = SumAmounts(matching)
                     /\ districts'[i].recent_awards = Len(matching)
       /\ last' = "fetch_recent_awards" /\ outcome' = "completed" =>
            \E o \in StateOrders(districts) :
               \A all_recent \in {AllRecent(fetched', o, 1)} :
                  \A i \in DOMAIN districts :
                     \A matching \in {RecentMatching(districts[i], all_recent)} :
                        matching # <<>> =>
                           /\ districts'[i].federal_awards = SumAmounts(matching)
                           /\ districts'[i].recent_awards = Len(matching)]_vars

\* the districts whose award fields a step has written
AwardsWritten(before, after) ==
    {i \in DOMAIN after :
        \/ i \notin DOMAIN before
        \/ Get(before[i], "award_details", <<>>) # Get(after[i], "award_details", <<>>)
        \/ Get(before[i], "federal_awards", 0) # Get(after[i], "federal_awards", 0)}

\* C23: every award record that fetch_data, fetch_all_awards or
\* fetch_recent_awards stores in award_details has a description of at most
\* 200 characters.
C23_DescriptionsBounded ==
    [][last' \in AwardPasses =>
         \A i \in AwardsWritten(districts, districts') :
            \A k \in DOMAIN districts'[i].award_details :
               Len(districts'[i].award_details[k].description)
                  <= DescriptionLimit]_vars

\* C24: whatever amounts the award source returns, every award amount an
\* award pass stores is non-negative and so is the federal_awards total it
\* stores.
C24_AmountsNonNegative ==
    [][last' \in AwardPasses =>
         \A i \in AwardsWritten(districts, districts') :
            /\ districts'[i].federal_awards >= 0
            /\ \A k \in DOMAIN districts'[i].award_details :
                  districts'[i].award_details[k].amount >= 0]_vars

-----------------------------------------------------------------------------
(* enrich_contacts.main taken step by step: requests, sleeps and saves     *)

\* the number of districts of the snapshot the run goes over
MaxRun == 12

\* line 231: progress is saved when (i + 1) % 10 == 0
SaveEvery == 10

\* STATE_NAMES (lines 19-26)
STATE_NAMES ==
    [WA |-> "Washington", OR |-> "Oregon", CA |-> "California",
     TX |-> "Texas", FL |-> "Florida", NY |-> "New_York"]

\* lines 53-60: the URLs get_ballotpedia_superintendent tries, in order
urls_to_try(district_name, state) ==
    LET bp_name == Replace(StrChars(district_name), <<" ">>, <<"_">>)
        state_name == StrChars(IF state \in DOMAIN STATE_NAMES
                               THEN STATE_NAMES[state] ELSE state)
        site == StrChars("https://ballotpedia.org/")
    IN  << site \o bp_name \o StrChars(",_") \o state_name,
           site \o bp_name,
           site \o Replace(bp_name, StrChars("_School_District"), <<>>)
                \o StrChars("_School_District,_") \o state_name >>

\* the districts fetch_data writes first (fetch_data.py lines 185-197)
SampleRows ==
    << [name |-> "Seattle Public Schools", state |-> "WA"],
       [name |-> "Spokane Public Schools", state |-> "WA"],
       [name |-> "Tacoma Public Schools", state |-> "WA"],
       [name |-> "Kent School District", state |-> "WA"],
       [name |-> "Federal Way Public Schools", state |-> "WA"],
       [name |-> "Lake Washington School District", state |-> "WA"],
       [name |-> "Northshore School District", state |-> "WA"],
       [name |-> "Bellevue School District", state |-> "WA"],
       [name |-> "Los Angeles Unified School District", state |-> "CA"],
       [name |-> "San Diego Unified School District", state |-> "CA"],
       [name |-> "Houston Independent School District", state |-> "TX"],
       [name |-> "Dallas Independent School District", state |-> "TX"],
       [name |-> "Austin Independent School District", state |-> "TX"] >>

\* the snapshot of the run: the first MaxRun districts, of which district p
\* (if any) was given a superintendent by hand
RunSnapshot(p) ==
    [k \in 1..MaxRun |->
        IF k = p
        THEN WithContacts(SampleRows[k], <<ResearchedSuperintendent(SampleRows[k])>>)
        ELSE SampleRows[k]]

\* the pages of the site that name a superintendent: none, or for every
\* district the page at the k-th URL tried
BallotpediaSites ==
    {{}} \cup {{urls_to_try(SampleRows[d].name, SampleRows[d].state)[k] :
                    d \in 1..MaxRun} : k \in 1..3}

InitEnrichRun ==
    /\ \E p \in 0..MaxRun : districts = RunSnapshot(p)
    /\ docs = districts
    /\ fetched \in BallotpediaSites
    /\ run = [pc |-> "idle"]
    /\ form = "object"
    /\ last = "" /\ outcome = ""
    \* the rest of the state is not used by these runs
    /\ nIn = [kind |-> "idle"] /\ nOut = <<>>
    /\ subdomain = "" /\ cands = <<>> /\ mcall = [pc |-> "idle"]
    /\ edclub_subdomains = <<>> /\ enriched = <<>>

\* lines 173-176: data = load_districts().  The locals of the run: i is the
\* 1-based index of the district at hand, data the list in memory, urls the
\* URLs still to try for it, requested the URLs requested for it, pending
\* the URLs requested since the last sleep.
EnrichLoad ==
    /\ run.pc = "idle"
    /\ run' = [pc |-> "district", i |-> 1, data |-> districts,
               urls |-> <<>>, requested |-> <<>>, pending |-> <<>>]
    /\ UNCHANGED <<nIn, nOut, subdomain, cands, mcall, districts, docs, last,
                   outcome, fetched, edclub_subdomains, enriched,
                   form>>

\* lines 183-188: a district that has a superintendent is passed over by
\* `continue`
EnrichSkip ==
    /\ run.pc = "district" /\ run.i <= Len(run.data)
    /\ HasSuperintendent(run.data[run.i])
    /\ run' = [run EXCEPT !.i = @ + 1]
    /\ UNCHANGED <<nIn, nOut, subdomain, cands, mcall, districts, docs, last,
                   outcome, fetched, edclub_subdomains, enriched,
                   form>>

\* lines 193 and 48-60: get_ballotpedia_superintendent is called
EnrichLookup ==
    /\ run.pc = "district" /\ run.i <= Len(run.data)
    /\ ~HasSuperintendent(run.data[run.i])
    /\ run' = [run EXCEPT !.pc = "request",
                          !.urls = urls_to_try(run.data[run.i].name,
                                               run.data[run.i].state),
                          !.requested = <<>>]
    /\ UNCHANGED <<nIn, nOut, subdomain, cands, mcall, districts, docs, last,
                   outcome, fetched, edclub_subdomains, enriched,
                   form>>

\* lines 62-87, one turn of the loop over urls_to_try: the request of line
\* 64; a page that names a superintendent ends the loop and the contact is
\* inserted (lines 195-223), any other answer goes on to the next URL
EnrichRequest ==
    /\ run.pc = "request" /\ run.urls # <<>>
    /\ LET url == Head(run.urls)
           asked == [run EXCEPT !.requested = Append(@, url),
                                !.pending = Append(@, url)]
       IN  IF url \in fetched
           THEN run' = [asked EXCEPT
                           !.pc = "sleep", !.urls = <<>>,
                           !.data[run.i] = BallotpediaDistrict(@, "Jane Doe")]
           ELSE run' = [asked EXCEPT
                           !.pc = IF Tail(run.urls) = <<>> THEN "sleep"
                                  ELSE "request",
                           !.urls = Tail(@)]
    /\ UNCHANGED <<nIn, nOut, subdomain, cands, mcall, districts, docs, last,
                   outcome, fetched, edclub_subdomains, enriched,
                   form>>

\* lines 227-231: time.sleep(1.5), then the test of the index
EnrichSleep ==
    /\ run.pc = "sleep"
    /\ run' = IF run.i % SaveEvery = 0
              THEN [run EXCEPT !.pc = "save", !.pending = <<>>]
              ELSE [run EXCEPT !.pc = "district", !.i = @ + 1,
                               !.pending = <<>>]
    /\ UNCHANGED <<nIn, nOut, subdomain, cands, mcall, districts, docs, last,
                   outcome, fetched, edclub_subdomains, enriched,
                   form>>

\* lines 232-233: save_districts(data) inside the loop
EnrichSaveProgress ==
    /\ run.pc = "save"
    /\ districts' = run.data /\ docs' = run.data
    /\ run' = [run EXCEPT !.pc = "district", !.i = @ + 1]
    /\ UNCHANGED <<nIn, nOut, subdomain, cands, mcall, last,
                   outcome, fetched, edclub_subdomains, enriched,
                   form>>

\* line 236: the save after the loop
EnrichFinalSave ==
    /\ run.pc = "district" /\ run.i > Len(run.data)
    /\ districts' = run.data /\ docs' = run.data
    /\ run' = [run EXCEPT !.pc = "done"]
    /\ last' = "enrich_contacts" /\ outcome' = "completed"
    /\ UNCHANGED <<nIn, nOut, subdomain, cands, mcall,
                   fetched, edclub_subdomains, enriched,
                   form>>

NextEnrichRun ==
    \/ EnrichLoad
    \/ EnrichSkip
    \/ EnrichLookup
    \/ EnrichRequest
    \/ EnrichSleep
    \/ EnrichSaveProgress
    \/ EnrichFinalSave

SpecEnrichRun ==
    /\ InitEnrichRun
    /\ [][NextEnrichRun]_vars

\* the districts whose record in memory differs from the saved one
Unsaved ==
    IF run.pc = "idle" THEN {}
    ELSE {i \in DOMAIN run.data : run.data[i] # districts[i]}

\* C25: during the Ballotpedia pass the snapshot is saved whenever the
\* 1-based index of the district just handled is a multiple of 10, before
\* the next district is handled, so at no point do more than 10 districts
\* hold updates that are not saved; after the loop everything is saved.
C25_SavedEveryTen ==
    /\ Cardinality(Unsaved) <= SaveEvery
    /\ run.pc = "district" /\ run.i > 1 /\ (run.i - 1) % SaveEvery = 0
          => Unsaved = {}
    /\ run.pc = "done" => Unsaved = {}

\* C26: between two consecutive requests of one run to the same host there
\* is a sleep: no second request is sent to ballotpedia.org while an
\* earlier one has not been followed by a sleep.
C26_SleepBetweenRequests == run.pc # "idle" => Len(run.pending) <= 1

\* C27: for one district get_ballotpedia_superintendent requests no URL
\* twice.
C27_NoUrlTwice ==
    run.pc # "idle" =>
       \A j, k \in DOMAIN run.requested :
          j # k => run.requested[j] # run.requested[k]

-----------------------------------------------------------------------------
(* The matcher on a subdomain that normalizes to the empty string          *)

\* C28: a subdomain whose cleaned name normalizes to the empty string is a
\* substring of every candidate: with a non-empty district list
\* match_subdomain_to_district returns the first district of the list with
\* confidence 0.9.
C28_EmptyNameTakesFirst ==
    (mcall.pc = "done" /\ mcall.name_normalized = <<>> /\ cands # <<>>) =>
        /\ mcall.best_match = <<MatchRecord(cands[1], SubstringScore)>>
        /\ mcall.best_match[1].confidence = 90

\* C28 witness: 'schools.typingclub.com' was matched against two different
\* districts and the call returned the first of them.
C28_Witness ==
    /\ mcall.pc = "done" /\ mcall.name_normalized = <<>>
    /\ subdomain = "schools.typingclub.com"
    /\ Len(cands) = 2 /\ cands[1].name # cands[2].name
    /\ mcall.best_match # <<>>
    /\ mcall.best_match[1].district = cands[1].name

-----------------------------------------------------------------------------
(* update_contacts_batch: the verified contacts after the run               *)

\* the names of the verified contacts of a district
VerifiedNames(name) ==
    IF name \in DOMAIN NEW_CONTACTS
    THEN {NEW_CONTACTS[name][n].name : n \in DOMAIN NEW_CONTACTS[name]}
    ELSE {}

\* C29: after update_contacts_batch has run, no contact taken from
\* NEW_CONTACTS carries email_guessed = true, and the verified superintendent
\* that replaced the old one in place holds no phone of the old entry.
C29_VerifiedNotGuessed ==
    [][last' = "update_contacts_batch" =>
         \A i \in DOMAIN districts' :
            \A k \in DOMAIN ContactsOf(districts'[i]) :
               \A c \in {ContactsOf(districts'[i])[k]} :
                  Get(c, "name", None) \in VerifiedNames(districts'[i].name) =>
                     /\ ~Get(c, "email_guessed", FALSE)
                     /\ Get(c, "phone", None) = None]_vars

-----------------------------------------------------------------------------
(* The competitor pass over a bare list                                     *)

\* C30: when data/districts.json holds a bare list, enrich_competitors.main
\* raises while it builds the districts output: data/edclub_enriched.json
\* has been written by then, data/districts.json is not overwritten, it
\* stays a bare list with the districts as they were, and no uses_edclub
\* flag of the run is stored.
C30_BareListRaisesAfterEnriched ==
    [][form = "list" /\ last' = "enrich_competitors" =>
         /\ outcome' = "raised"
         /\ enriched' = <<EnrichedOutput(edclub_subdomains',
                              Competitors(edclub_subdomains', districts))>>
         /\ districts' = districts
         /\ form' = "list"]_vars

\* C30 witness: the pass has raised over a bare list, the enriched file
\* records a match for a district, and that district holds no uses_edclub.
C30_Witness ==
    /\ form = "list" /\ last = "enrich_competitors" /\ outcome = "raised"
    /\ enriched # <<>>
    /\ \E k \in DOMAIN enriched[1].competitors :
       \E i \in DOMAIN districts :
          /\ enriched[1].competitors[k].match # <<>>
          /\ enriched[1].competitors[k].match[1].district = districts[i].name
          /\ "uses_edclub" \notin DOMAIN districts[i]

====
